---- MODULE Spec2Model ----
(***************************************************************************)
(* Burnout-prevention backend: stress calculator, intervention engine and  *)
(* the stress-analysis request handler.                                    *)
(*                                                                         *)
(* Representation.                                                         *)
(*   instants    minutes on the wall clock, counted from the midnight that *)
(*               begins the day before the request; a datetime is a        *)
(*               record [wall, tz] (tz = "naive", an offset name, or       *)
(*               "none" for an absent Optional[datetime])                  *)
(*   text        sequences of one-character strings                        *)
(*   returned floats with round(x, 2)   integers, hundredths               *)
(*   unrounded factors                  integers, millionths   (1e-6)      *)
(*   unrounded weighted total           integers, 1e-7                     *)
(* The arithmetic is exact rational arithmetic with round-half-even where  *)
(* the code rounds; 30*log1p(2n) is tabulated to the nearest millionth.    *)
(***************************************************************************)
EXTENDS Integers, Sequences, FiniteSets, TLC

VARIABLES
    events,         \* request body: List[CalendarEvent]
    tasks,          \* request body: List[Task]
    now,            \* what datetime.now() returns
    pc,             \* position of the request handler
    stress_score,   \* StressScore returned by calculate_stress_score
    factors,        \* StressFactors returned by get_stress_factors
    debug,          \* the [DEBUG] values calculate_stress_score prints
    interventions,  \* list returned by generate_interventions / the LLM layer
    candidates,     \* generate_interventions' list before sort and [:5]
    env,            \* OPENAI_API_KEY and the behaviour of the LLM service
    factor_kwargs,  \* keyword arguments get_stress_factors gives StressFactors(...)
    response        \* what the request handler answers

vars == <<events, tasks, now, pc, stress_score, factors, debug,
          interventions, candidates, env, factor_kwargs, response>>

----------------------------------------------------------------------------
(* Bounds of the model *)

MaxEvents == 3
MaxTasks == 4

----------------------------------------------------------------------------
(* Time *)

MinutesPerDay == 1440
Day(n) == n * MinutesPerDay
Clock(d, h, m) == Day(d) + h * 60 + m

Naive(w) == [wall |-> w, tz |-> "naive"]
Aware(w, z) == [wall |-> w, tz |-> z]
NoDate == [wall |-> 0, tz |-> "none"]

\* datetime.replace(hour=0, minute=0, second=0, microsecond=0)
Midnight(t) == (t \div MinutesPerDay) * MinutesPerDay

parse_datetime(dt) == [wall |-> dt.wall, tz |-> "naive"]

get_week_range(target_date) ==
    LET start_of_week == Midnight(target_date)
    IN  [week_start |-> start_of_week, week_end |-> start_of_week + Day(7)]

----------------------------------------------------------------------------
(* Requests *)

\* an absent Optional[str]
NoneStr == <<"None">>

EventCatalogue ==
    { [id |-> "lecture", summary |-> <<"C","S"," ","L","e","c","t","u","r","e">>,
       description |-> NoneStr,
       start |-> Naive(Clock(1, 10, 0)), end |-> Naive(Clock(1, 11, 20))],
      [id |-> "exam", summary |-> <<"M","i","d","t","e","r","m"," ","E","x","a","m">>,
       description |-> NoneStr,
       start |-> Naive(Clock(1, 12, 0)), end |-> Naive(Clock(1, 13, 20))],
      [id |-> "yoga", summary |-> <<"Y","o","g","a"," ","S","e","s","s","i","o","n">>,
       description |-> NoneStr,
       start |-> Naive(Clock(1, 14, 0)), end |-> Naive(Clock(1, 15, 20))],
      [id |-> "trip", summary |-> <<"F","i","e","l","d"," ","T","r","i","p">>,
       description |-> NoneStr,
       start |-> Naive(Clock(1, 19, 0)), end |-> Naive(Clock(6, 1, 0))],
      [id |-> "shift", summary |-> <<"N","i","g","h","t"," ","S","h","i","f","t">>,
       description |-> NoneStr,
       start |-> Naive(Clock(1, 22, 0)), end |-> Naive(Clock(2, 6, 0))],
      [id |-> "call", summary |-> <<"L","a","t","e"," ","C","a","l","l">>,
       description |-> NoneStr,
       start |-> Naive(Clock(1, 23, 0)), end |-> Naive(Clock(2, 0, 0))],
      [id |-> "flight", summary |-> <<"F","l","i","g","h","t">>,
       description |-> NoneStr,
       start |-> Naive(Clock(8, 2, 0)), end |-> Naive(Clock(8, 4, 0))],
      [id |-> "allday", summary |-> <<"O","p","e","n"," ","D","a","y">>,
       description |-> NoneStr,
       start |-> Naive(Clock(1, 0, 0)), end |-> Naive(Clock(2, 0, 0))] }

TaskCatalogue ==
    { [id |-> "t-due", title |-> <<"E","s","s","a","y">>, description |-> NoneStr,
       due_date |-> Naive(Clock(0, 17, 0)), priority |-> "high", completed |-> FALSE],
      [id |-> "t-done", title |-> <<"Q","u","i","z"," ","p","r","e","p">>, description |-> NoneStr,
       due_date |-> Naive(Clock(0, 9, 0)), priority |-> "medium", completed |-> TRUE] }

\* events for the classifier: a summary matching both keyword lists, one
\* list only, a keyword inside a longer word, a keyword in the description
\* only, no keyword, and an id that another event of the catalogue has too
ClassifyCatalogue ==
    { [id |-> "c-both", summary |-> <<"E","x","a","m"," ","P","a","r","t","y">>, description |-> NoneStr,
       start |-> Naive(Clock(1, 18, 0)), end |-> Naive(Clock(1, 20, 0))],
      [id |-> "c-yoga", summary |-> <<"Y","o","g","a"," ","S","e","s","s","i","o","n">>, description |-> NoneStr,
       start |-> Naive(Clock(2, 7, 0)), end |-> Naive(Clock(2, 8, 0))],
      [id |-> "c-exam", summary |-> <<"M","i","d","t","e","r","m"," ","E","x","a","m">>, description |-> NoneStr,
       start |-> Naive(Clock(2, 9, 0)), end |-> Naive(Clock(2, 11, 0))],
      [id |-> "c-exam", summary |-> <<"G","Y","M">>, description |-> NoneStr,
       start |-> Naive(Clock(2, 17, 0)), end |-> Naive(Clock(2, 18, 0))],
      [id |-> "c-word", summary |-> <<"C","o","l","l","a","b","o","r","a","t","i","o","n">>, description |-> NoneStr,
       start |-> Naive(Clock(3, 9, 0)), end |-> Naive(Clock(3, 10, 0))],
      [id |-> "c-desc", summary |-> <<"O","f","f","i","c","e"," ","H","o","u","r","s">>,
       description |-> <<"B","r","i","n","g"," ","h","o","m","e","w","o","r","k">>,
       start |-> Naive(Clock(3, 14, 0)), end |-> Naive(Clock(3, 15, 0))],
      [id |-> "c-none", summary |-> <<"R","e","a","d","i","n","g">>, description |-> NoneStr,
       start |-> Naive(Clock(4, 9, 0)), end |-> Naive(Clock(4, 10, 0))] }

\* events for the break analyzer: one from 09:00 to 10:00 today and one
\* starting g minutes after it ends, for g at and just under each threshold
BreakGapsCovered == {0, 14, 15, 29, 30, 59, 60}

BreakCatalogue ==
    { [id |-> "b-first", summary |-> <<"B","l","o","c","k">>, description |-> NoneStr,
       start |-> Naive(Clock(1, 9, 0)), end |-> Naive(Clock(1, 10, 0))] }
    \cup { [id |-> ToString(g), summary |-> <<"B","l","o","c","k">>, description |-> NoneStr,
            start |-> Naive(Clock(1, 10, g)), end |-> Naive(Clock(1, 10, g) + 30)] :
            g \in BreakGapsCovered }

\* events around the end of the window (the midnight seven days after the
\* one that begins today): the last hour inside it, its first instant
\* outside, the small hours of the night that began inside it, and the
\* morning after that night
LateCatalogue ==
    { [id |-> "l-inside", summary |-> <<"S","e","m","i","n","a","r">>, description |-> NoneStr,
       start |-> Naive(Clock(7, 23, 0)), end |-> Naive(Clock(7, 23, 30))],
      [id |-> "l-end", summary |-> <<"R","e","l","e","a","s","e">>, description |-> NoneStr,
       start |-> Naive(Clock(8, 0, 0)), end |-> Naive(Clock(8, 1, 0))],
      [id |-> "l-night", summary |-> <<"F","l","i","g","h","t">>, description |-> NoneStr,
       start |-> Naive(Clock(8, 2, 0)), end |-> Naive(Clock(8, 4, 0))],
      [id |-> "l-morning", summary |-> <<"P","r","o","j","e","c","t"," ","R","e","v","i","e","w">>,
       description |-> NoneStr,
       start |-> Naive(Clock(8, 8, 0)), end |-> Naive(Clock(8, 10, 0))] }

\* recreational events of today by length in minutes: none, an hour, the
\* longest that adds at most 2.0 points of density, a minute more, three hours
RecreationMinutesCovered == {0, 60, 134, 135, 180}

RecreationCatalogue ==
    { [id |-> ToString(m), summary |-> <<"G","y","m"," ","W","o","r","k","o","u","t">>,
       description |-> NoneStr,
       start |-> Naive(Clock(1, 16, 0)), end |-> Naive(Clock(1, 16, 0) + m)] :
       m \in RecreationMinutesCovered }

\* what such an event is added to
RecreationBase == {e \in EventCatalogue : e.id \in {"lecture", "exam", "yoga"}}

\* events for the sleep estimate: a daytime event, the ones of the catalogue
\* that reach into a night, and one whose end is before its start
NightCatalogue ==
    {e \in EventCatalogue : e.id \in {"lecture", "shift", "call", "trip", "allday"}}
    \cup { [id |-> "n-back", summary |-> <<"S","t","a","n","d","b","y">>, description |-> NoneStr,
            start |-> Naive(Clock(2, 7, 0)), end |-> Naive(Clock(1, 23, 0))] }

\* every event a request of the model can carry
RequestEvents ==
    EventCatalogue \cup ClassifyCatalogue \cup BreakCatalogue \cup LateCatalogue
    \cup RecreationCatalogue \cup NightCatalogue

RequestInstants == {Clock(1, 12, 0)}

SeqsUpTo(S, n) == UNION {[1..k -> S] : k \in 0..n}

\* the task lists of a request: the calculator only counts the tasks that
\* are due, so a list is k open tasks due yesterday and at most one
\* completed one
DueTask == CHOOSE t \in TaskCatalogue : ~t.completed
DoneTask == CHOOSE t \in TaskCatalogue : t.completed

RequestTasks ==
    { [i \in 1..(c[1] + c[2]) |-> IF i <= c[1] THEN DueTask ELSE DoneTask] :
        c \in {d \in (0..MaxTasks) \X (0..1) : d[1] + d[2] <= MaxTasks} }

----------------------------------------------------------------------------
(* Arithmetic helpers *)

Min(a, b) == IF a <= b THEN a ELSE b
Max(a, b) == IF a >= b THEN a ELSE b

\* round(n / d) to the nearest integer, ties to even (n >= 0, d > 0)
RoundHalfEven(n, d) ==
    LET q == n \div d
        r == n % d
    IN  IF 2 * r < d THEN q
        ELSE IF 2 * r > d THEN q + 1
        ELSE IF q % 2 = 0 THEN q ELSE q + 1

RECURSIVE SumSeq(_)
SumSeq(s) == IF s = <<>> THEN 0 ELSE Head(s) + SumSeq(Tail(s))

RECURSIVE MaxSeq(_)
MaxSeq(s) == IF s = <<>> THEN 0 ELSE Max(Head(s), MaxSeq(Tail(s)))

\* [f(s[i]) for i in range(len(s))]
MapSeq(s, f(_)) == [i \in DOMAIN s |-> f(s[i])]

\* sorted(weekly_events, key=lambda e: parse_datetime(e.start)) : stable
RECURSIVE InsertByStart(_, _)
InsertByStart(x, s) ==
    IF s = <<>> THEN <<x>>
    ELSE IF parse_datetime(Head(s).start).wall <= parse_datetime(x.start).wall
         THEN <<Head(s)>> \o InsertByStart(x, Tail(s))
         ELSE <<x>> \o s

RECURSIVE SortedByStart(_)
SortedByStart(s) ==
    IF s = <<>> THEN <<>>
    ELSE InsertByStart(s[Len(s)], SortedByStart(SubSeq(s, 1, Len(s) - 1)))

\* list.sort() of (start, end) tuples: lexicographic
TupleLeq(a, b) == a[1] < b[1] \/ (a[1] = b[1] /\ a[2] <= b[2])

RECURSIVE InsertTuple(_, _)
InsertTuple(x, s) ==
    IF s = <<>> THEN <<x>>
    ELSE IF TupleLeq(Head(s), x) THEN <<Head(s)>> \o InsertTuple(x, Tail(s))
    ELSE <<x>> \o s

RECURSIVE SortedTuples(_)
SortedTuples(s) ==
    IF s = <<>> THEN <<>>
    ELSE InsertTuple(s[Len(s)], SortedTuples(SubSeq(s, 1, Len(s) - 1)))

----------------------------------------------------------------------------
(* Text *)

UpperCase == <<"A","B","C","D","E","F","G","H","I","J","K","L","M",
               "N","O","P","Q","R","S","T","U","V","W","X","Y","Z">>
LowerCase == <<"a","b","c","d","e","f","g","h","i","j","k","l","m",
               "n","o","p","q","r","s","t","u","v","w","x","y","z">>

LowerChar(c) ==
    IF \E i \in DOMAIN UpperCase : UpperCase[i] = c
    THEN LowerCase[CHOOSE i \in DOMAIN UpperCase : UpperCase[i] = c]
    ELSE c

\* str.lower()
Lower(text) == [i \in DOMAIN text |-> LowerChar(text[i])]

\* keyword in text
Contains(text, keyword) ==
    \E i \in 1..(Len(text) - Len(keyword) + 1) :
        SubSeq(text, i, i + Len(keyword) - 1) = keyword

OrEmpty(s) == IF s = NoneStr THEN <<>> ELSE s

HIGH_STRESS_KEYWORDS ==
    << <<"e","x","a","m">>,
       <<"t","e","s","t">>,
       <<"q","u","i","z">>,
       <<"m","i","d","t","e","r","m">>,
       <<"f","i","n","a","l">>,
       <<"i","n","t","e","r","v","i","e","w">>,
       <<"p","r","e","s","e","n","t","a","t","i","o","n">>,
       <<"d","e","a","d","l","i","n","e">>,
       <<"m","e","e","t","i","n","g">>,
       <<"r","e","v","i","e","w">>,
       <<"a","s","s","e","s","s","m","e","n","t">>,
       <<"e","v","a","l","u","a","t","i","o","n">>,
       <<"p","r","o","j","e","c","t"," ","d","u","e">>,
       <<"s","u","b","m","i","s","s","i","o","n">>,
       <<"d","e","f","e","n","s","e">>,
       <<"t","h","e","s","i","s">>,
       <<"d","i","s","s","e","r","t","a","t","i","o","n">>,
       <<"l","a","b">>,
       <<"h","o","m","e","w","o","r","k">> >>

RECREATIONAL_KEYWORDS ==
    << <<"g","y","m">>,
       <<"w","o","r","k","o","u","t">>,
       <<"e","x","e","r","c","i","s","e">>,
       <<"y","o","g","a">>,
       <<"m","e","d","i","t","a","t","i","o","n">>,
       <<"b","r","e","a","k">>,
       <<"l","u","n","c","h">>,
       <<"d","i","n","n","e","r">>,
       <<"c","o","f","f","e","e">>,
       <<"s","o","c","i","a","l">>,
       <<"p","a","r","t","y">>,
       <<"g","a","m","e">>,
       <<"m","o","v","i","e">>,
       <<"c","o","n","c","e","r","t">>,
       <<"s","p","o","r","t","s">>,
       <<"c","l","u","b">>,
       <<"r","e","l","a","x">>,
       <<"h","o","b","b","y">>,
       <<"f","u","n">>,
       <<"h","a","n","g"," ","o","u","t">>,
       <<"c","h","i","l","l">> >>

\* the label with the recreational test taken first
classify_label_RecreationalFirst(event) ==
    LET text == Lower(event.summary \o <<" ">> \o OrEmpty(event.description))
        is_high_stress ==
            \E k \in DOMAIN HIGH_STRESS_KEYWORDS : Contains(text, HIGH_STRESS_KEYWORDS[k])
        is_recreational ==
            \E k \in DOMAIN RECREATIONAL_KEYWORDS : Contains(text, RECREATIONAL_KEYWORDS[k])
    IN  IF is_recreational THEN "recreational"
        ELSE IF is_high_stress THEN "high_stress"
        ELSE "neutral"

\* body of the loop of classify_event_stress: the label of one event
classify_label(event) ==
    LET text == Lower(event.summary \o <<" ">> \o OrEmpty(event.description))
        is_high_stress ==
            \E k \in DOMAIN HIGH_STRESS_KEYWORDS : Contains(text, HIGH_STRESS_KEYWORDS[k])
        is_recreational ==
            \E k \in DOMAIN RECREATIONAL_KEYWORDS : Contains(text, RECREATIONAL_KEYWORDS[k])
    IN  IF is_high_stress THEN "high_stress"
        ELSE IF is_recreational THEN "recreational"
        ELSE "neutral"

\* classify_label over the events a request can carry, evaluated once
LabelOf == [e \in RequestEvents |-> classify_label(e)]

\* the dict the function returns: classifications[event.id] = label, a later
\* event with the same id overwriting an earlier one
classify_event_stress(evs) ==
    [id \in {evs[k].id : k \in DOMAIN evs} |->
        LET last == CHOOSE k \in DOMAIN evs :
                        /\ evs[k].id = id
                        /\ \A j \in DOMAIN evs : evs[j].id = id => j <= k
        IN  LabelOf[evs[last]]]

----------------------------------------------------------------------------
(* backend/stress_calculator.py : the analyzers *)

\* the window counted from the instant itself (now <= start <= now + 7 days)
InWeek_FromNow(e, target_date) ==
    /\ target_date <= parse_datetime(e.start).wall
    /\ parse_datetime(e.start).wall <= target_date + Day(7)

InWeek_ThroughEnd(e, target_date) ==
    LET w == get_week_range(target_date)
    IN  /\ w.week_start <= parse_datetime(e.start).wall
        /\ parse_datetime(e.start).wall <= w.week_end

InWeek(e, target_date) ==
    LET w == get_week_range(target_date)
    IN  /\ w.week_start <= parse_datetime(e.start).wall
        /\ parse_datetime(e.start).wall < w.week_end

\* [e for e in events if week_start <= parse_datetime(e.start) < week_end]
WeeklyEvents(evs, target_date) ==
    SelectSeq(evs, LAMBDA e : InWeek(e, target_date))

\* (parse_datetime(e.end) - parse_datetime(e.start)).total_seconds() / 60
DurationMinutes(e) == parse_datetime(e.end).wall - parse_datetime(e.start).wall

WakingMinutesPerDay == 16 * 60
WakingMinutesPerWeek == 16 * 60 * 7

\* the density without its cap at 100
calculate_calendar_density_Uncapped(evs, target_date) ==
    LET weekly_events == WeeklyEvents(evs, target_date)
        total_minutes == SumSeq(MapSeq(weekly_events, DurationMinutes))
    IN  IF weekly_events = <<>> THEN 0
        ELSE RoundHalfEven(total_minutes * 100 * 100, WakingMinutesPerWeek)

\* the density against the waking minutes of a single day
calculate_calendar_density_PerDay(evs, target_date) ==
    LET weekly_events == WeeklyEvents(evs, target_date)
        total_minutes == SumSeq(MapSeq(weekly_events, DurationMinutes))
    IN  IF weekly_events = <<>> THEN 0
        ELSE IF total_minutes >= WakingMinutesPerDay THEN 100 * 100
        ELSE RoundHalfEven(total_minutes * 100 * 100, WakingMinutesPerDay)

\* returns hundredths of a percent
calculate_calendar_density(evs, target_date) ==
    LET weekly_events == WeeklyEvents(evs, target_date)
        total_minutes == SumSeq(MapSeq(weekly_events, DurationMinutes))
        waking_minutes == WakingMinutesPerWeek
    IN  IF weekly_events = <<>> THEN 0
        ELSE IF total_minutes >= waking_minutes THEN 100 * 100
        ELSE RoundHalfEven(total_minutes * 100 * 100, waking_minutes)

\* the positive gaps between consecutive events of the sorted list
RECURSIVE BreakGaps(_, _)
BreakGaps(sorted_events, i) ==
    IF i > Len(sorted_events) THEN <<>>
    ELSE LET prev_end == parse_datetime(sorted_events[i - 1].end).wall
             curr_start == parse_datetime(sorted_events[i].start).wall
             gap == curr_start - prev_end
         IN  (IF gap > 0 THEN <<gap>> ELSE <<>>) \o BreakGaps(sorted_events, i + 1)

\* the gaps taken in the order of the request, without sorting by start
calculate_average_break_length_Unsorted(evs, target_date) ==
    LET weekly_events == WeeklyEvents(evs, target_date)
        sorted_events == weekly_events
        breaks == BreakGaps(sorted_events, 2)
    IN  IF Len(weekly_events) <= 1 THEN WakingMinutesPerDay * 100
        ELSE IF breaks = <<>> THEN 0
        ELSE RoundHalfEven(SumSeq(breaks) * 100, Len(breaks))

\* returns hundredths of a minute
calculate_average_break_length(evs, target_date) ==
    LET weekly_events == WeeklyEvents(evs, target_date)
        sorted_events == SortedByStart(weekly_events)
        breaks == BreakGaps(sorted_events, 2)
    IN  IF Len(weekly_events) <= 1 THEN WakingMinutesPerDay * 100
        ELSE IF breaks = <<>> THEN 0
        ELSE RoundHalfEven(SumSeq(breaks) * 100, Len(breaks))

SleepStartHour == 22
SleepEndHour == 8
SleepCapMinutes == 12 * 60

\* window_events of one night: the clipped events, then the two markers
RECURSIVE ClippedEvents(_, _, _)
ClippedEvents(evs, sleep_start, sleep_end) ==
    IF evs = <<>> THEN <<>>
    ELSE LET e_start == parse_datetime(Head(evs).start).wall
             e_end == parse_datetime(Head(evs).end).wall
             rest == ClippedEvents(Tail(evs), sleep_start, sleep_end)
         IN  IF e_end > sleep_start /\ e_start < sleep_end
             THEN << <<Max(e_start, sleep_start), Min(e_end, sleep_end)>> >> \o rest
             ELSE rest

\* max over i >= 1 of window_events[i][0] - window_events[i-1][1], floor 0
RECURSIVE LargestGap(_, _)
LargestGap(window_events, i) ==
    IF i > Len(window_events) THEN 0
    ELSE Max(window_events[i][1] - window_events[i - 1][2],
             LargestGap(window_events, i + 1))

\* the night counted from 20:00
NightSleepMinutes_FromEvening(evs, target_date, day) ==
    LET day_start == get_week_range(target_date).week_start + Day(day)
        sleep_start == day_start + (SleepStartHour - 2) * 60
        sleep_end == day_start + Day(1) + SleepEndHour * 60
        window_events ==
            SortedTuples(ClippedEvents(evs, sleep_start, sleep_end)
                         \o << <<sleep_start, sleep_start>>, <<sleep_end, sleep_end>> >>)
        max_gap == LargestGap(window_events, 2)
    IN  Min(max_gap, SleepCapMinutes)

\* sleep_hours[day], in minutes
NightSleepMinutes(evs, target_date, day) ==
    LET day_start == get_week_range(target_date).week_start + Day(day)
        sleep_start == day_start + SleepStartHour * 60
        sleep_end == day_start + Day(1) + SleepEndHour * 60
        window_events ==
            SortedTuples(ClippedEvents(evs, sleep_start, sleep_end)
                         \o << <<sleep_start, sleep_start>>, <<sleep_end, sleep_end>> >>)
        max_gap == LargestGap(window_events, 2)
    IN  Min(max_gap, SleepCapMinutes)

\* the list sleep_hours of calculate_sleep_opportunity, in minutes
SleepNights(evs, target_date) ==
    [d \in 1..7 |-> NightSleepMinutes(evs, target_date, d - 1)]

\* returns hundredths of an hour
calculate_sleep_opportunity(evs, target_date) ==
    RoundHalfEven(SumSeq(SleepNights(evs, target_date)) * 100, 60 * 7)

\* the test without "not t.completed"
IsImmediate_AlsoCompleted(t, clock) ==
    LET tomorrow_end == Midnight(clock + Day(1)) + 23 * 60 + 59
    IN  /\ t.due_date.tz # "none"
        /\ parse_datetime(t.due_date).wall <= tomorrow_end

IsImmediate(t, clock) ==
    LET tomorrow_end == Midnight(clock + Day(1)) + 23 * 60 + 59
    IN  /\ ~t.completed
        /\ t.due_date.tz # "none"
        /\ parse_datetime(t.due_date).wall <= tomorrow_end

calculate_immediate_tasks(tsks, clock) ==
    Len(SelectSeq(tsks, LAMBDA t : IsImmediate(t, clock)))

get_sleep_quality_message(sleep_hours) ==
    IF sleep_hours >= 800 THEN "Excellent"
    ELSE IF sleep_hours >= 700 THEN "Good"
    ELSE IF sleep_hours >= 600 THEN "Insufficient"
    ELSE IF sleep_hours >= 400 THEN "Severely deprived"
    ELSE "Critical"

----------------------------------------------------------------------------
(* backend/stress_calculator.py : calculate_stress_score, get_stress_factors *)

Micro == 1000000
Hundred == 100 * Micro

\* 30 * math.log1p(2 * n) in millionths, n = 0..15; the value exceeds 100 from
\* n = 14 on and log1p is increasing
Log1pTable ==
    <<0, 32958369, 48283137, 58377304, 65916737, 71936858, 76948481, 81241506,
      84996400, 88333169, 91335673, 94064826, 96566275, 98875106, 101018875,
      103019616>>

ThirtyLog1p(x) == IF x \div 2 + 1 > Len(Log1pTable)
                  THEN Log1pTable[Len(Log1pTable)]
                  ELSE Log1pTable[x \div 2 + 1]

\* the steps with their boundaries exclusive below
break_factor_of_ExclusiveBelow(avg_break) ==
    IF avg_break > 60 * 100 THEN 0
    ELSE IF avg_break > 30 * 100 THEN 30
    ELSE IF avg_break > 15 * 100 THEN 60
    ELSE 90

break_factor_of(avg_break) ==
    IF avg_break >= 60 * 100 THEN 0
    ELSE IF avg_break >= 30 * 100 THEN 30
    ELSE IF avg_break >= 15 * 100 THEN 60
    ELSE 90

\* thresholds on the unrounded total (1e-7)
risk_level_of(total) ==
    IF total >= 80 * 10 * Micro THEN "critical"
    ELSE IF total >= 60 * 10 * Micro THEN "high"
    ELSE IF total >= 40 * 10 * Micro THEN "medium"
    ELSE "low"

CountLabel(labels, label) == Cardinality({id \in DOMAIN labels : labels[id] = label})

\* recreational events counted like neutral ones
calendar_factor_of_RecreationalAsNeutral(density, count, high, recreational) ==
    Max(0, Min(density * 4000 + count * 1200000 + high * 4 * Micro, Hundred))

\* max(0, min(density * 0.4 + events * 1.2 + high * 4 - recreational * 2, 100)),
\* in millionths, from the density in hundredths
calendar_factor_of(density, count, high, recreational) ==
    Max(0, Min(density * 4000 + count * 1200000 + high * 4 * Micro
               - recreational * 2 * Micro,
               Hundred))

\* every local of calculate_stress_score, unrounded; clock is what line 146
\* reads and task_clock what calculate_immediate_tasks reads on line 130
ScoreLocalsAt(evs, tsks, clock, task_clock) ==
    LET upcoming_events == WeeklyEvents(evs, clock)
        events_count == Len(upcoming_events)
        event_stress_labels == classify_event_stress(upcoming_events)
        high_stress_count == CountLabel(event_stress_labels, "high_stress")
        recreational_count == CountLabel(event_stress_labels, "recreational")
        calendar_density == calculate_calendar_density(evs, clock)
        sleep_hours == calculate_sleep_opportunity(evs, clock)
        avg_break == calculate_average_break_length(evs, clock)
        immediate_tasks == calculate_immediate_tasks(tsks, task_clock)
        calendar_factor ==
            calendar_factor_of(calendar_density, events_count, high_stress_count,
                               recreational_count)
        task_factor == Min(ThirtyLog1p(immediate_tasks * 2), Hundred)
        sleep_factor == Max(Hundred - sleep_hours * 125000, 0)
        break_factor == break_factor_of(avg_break)
        total_score == calendar_factor * 3 + task_factor * 2
                       + sleep_factor * 3 + break_factor * Micro * 2
    IN  [events_count |-> events_count,
         event_stress_labels |-> event_stress_labels,
         high_stress_count |-> high_stress_count,
         recreational_count |-> recreational_count,
         calendar_density |-> calendar_density,
         sleep_hours |-> sleep_hours,
         sleep_nights |-> SleepNights(evs, clock),
         avg_break |-> avg_break,
         immediate_tasks |-> immediate_tasks,
         calendar_factor |-> calendar_factor,
         task_factor |-> task_factor,
         sleep_factor |-> sleep_factor,
         break_factor |-> break_factor,
         total_score |-> total_score,
         risk_level |-> risk_level_of(total_score)]

\* the locals when both readings of the clock give the same instant
ScoreLocals(evs, tsks, clock) == ScoreLocalsAt(evs, tsks, clock, clock)

\* the StressScore the function returns from its locals (fields in hundredths)
ReturnedStressScore(l, clock) ==
        [total_score |-> RoundHalfEven(l.total_score, (10 * Micro) \div 100),
         calendar_factor |-> RoundHalfEven(l.calendar_factor, Micro \div 100),
         task_factor |-> RoundHalfEven(l.task_factor, Micro \div 100),
         sleep_factor |-> RoundHalfEven(l.sleep_factor, Micro \div 100),
         risk_level |-> l.risk_level,
         timestamp |-> clock]

\* schemas.py : the fields of StressFactors, all required
StressFactorsFields ==
    {"events_next_7_days", "overdue_tasks", "high_priority_tasks",
     "calendar_density", "sleep_hours_available"}

\* pydantic: a model is built when every required field is given
Validates(kwargs, required) == required \subseteq DOMAIN kwargs

\* the keyword arguments of the StressFactors(...) call; clock is what line
\* 214 reads and task_clock what calculate_immediate_tasks reads on line 130
stress_factors_kwargs_at(evs, tsks, clock, task_clock) ==
    LET upcoming_events == WeeklyEvents(evs, clock)
        immediate_tasks == calculate_immediate_tasks(tsks, task_clock)
        sleep_hours == calculate_sleep_opportunity(evs, clock)
    IN  [events_next_7_days |-> Len(upcoming_events),
         immediate_action_tasks |-> immediate_tasks,
         calendar_density |-> calculate_calendar_density(evs, clock),
         sleep_hours_available |-> sleep_hours,
         average_break_length |-> calculate_average_break_length(evs, clock),
         sleep_quality_message |-> get_sleep_quality_message(sleep_hours)]

\* the keyword arguments when both readings give the same instant
stress_factors_kwargs(evs, tsks, clock) == stress_factors_kwargs_at(evs, tsks, clock, clock)

Unset == [unset |-> TRUE]
NoResponse == [status |-> 0, detail |-> "none"]

----------------------------------------------------------------------------
(* backend/main.py : POST /api/stress/analyze, up to the first failure *)

Init ==
    /\ events \in SeqsUpTo(EventCatalogue, MaxEvents)
    /\ tasks \in RequestTasks
    /\ now \in RequestInstants
    /\ pc = "start"
    /\ stress_score = Unset
    /\ factors = Unset
    /\ factor_kwargs = Unset
    /\ debug = Unset
    /\ interventions = <<>>
    /\ candidates = <<>>
    /\ env = Unset
    /\ response = NoResponse

CalculateStressScore ==
    /\ pc = "start"
    /\ debug' = ScoreLocals(events, tasks, now)
    /\ stress_score' = ReturnedStressScore(debug', now)
    /\ pc' = "scored"
    /\ UNCHANGED <<events, tasks, now, factors, factor_kwargs, interventions,
                   candidates, env, response>>

GetStressFactors ==
    /\ pc = "scored"
    /\ LET kwargs == stress_factors_kwargs(events, tasks, now)
       IN  /\ factor_kwargs' = kwargs
           /\ IF Validates(kwargs, StressFactorsFields)
              THEN /\ factors' = [f \in StressFactorsFields |-> kwargs[f]]
                   /\ pc' = "factored"
                   /\ response' = response
              ELSE /\ factors' = factors
                   /\ pc' = "error"
                   /\ response' = [status |-> 500, detail |-> "ValidationError"]
    /\ UNCHANGED <<events, tasks, now, stress_score, debug, interventions,
                   candidates, env>>

Next == CalculateStressScore \/ GetStressFactors

Spec == Init /\ [][Next]_vars

----------------------------------------------------------------------------
(* calculate_stress_score on schedules with breaks at the step boundaries *)

MaxBreakEvents == 2

InitBreak ==
    /\ events \in SeqsUpTo(BreakCatalogue, MaxBreakEvents)
    /\ tasks \in {<<>>, <<DueTask>>}
    /\ now \in RequestInstants
    /\ pc = "start"
    /\ stress_score = Unset
    /\ factors = Unset
    /\ factor_kwargs = Unset
    /\ debug = Unset
    /\ interventions = <<>>
    /\ candidates = <<>>
    /\ env = Unset
    /\ response = NoResponse

NextBreak == CalculateStressScore

SpecBreak == InitBreak /\ [][NextBreak]_vars

----------------------------------------------------------------------------
(* the same request on schedules around the end of the window *)

MaxLateEvents == 2

InitLate ==
    /\ events \in SeqsUpTo(LateCatalogue, MaxLateEvents)
    /\ tasks \in {<<>>, <<DueTask>>}
    /\ now \in RequestInstants
    /\ pc = "start"
    /\ stress_score = Unset
    /\ factors = Unset
    /\ factor_kwargs = Unset
    /\ debug = Unset
    /\ interventions = <<>>
    /\ candidates = <<>>
    /\ env = Unset
    /\ response = NoResponse

NextLate == CalculateStressScore \/ GetStressFactors

SpecLate == InitLate /\ [][NextLate]_vars

----------------------------------------------------------------------------
(* calculate_stress_score on a schedule with one more recreational event *)

MaxRecreationBase == 2

InitRecreation ==
    /\ events \in {Append(base, added) :
                      base \in SeqsUpTo(RecreationBase, MaxRecreationBase),
                      added \in RecreationCatalogue}
    /\ tasks \in {<<>>, <<DueTask>>}
    /\ now \in RequestInstants
    /\ pc = "start"
    /\ stress_score = Unset
    /\ factors = Unset
    /\ factor_kwargs = Unset
    /\ debug = Unset
    /\ interventions = <<>>
    /\ candidates = <<>>
    /\ env = Unset
    /\ response = NoResponse

NextRecreation == CalculateStressScore

SpecRecreation == InitRecreation /\ [][NextRecreation]_vars

----------------------------------------------------------------------------
(* the same request on schedules that reach into the nights *)

MaxNightEvents == 2

InitNight ==
    /\ events \in SeqsUpTo(NightCatalogue, MaxNightEvents)
    /\ tasks \in {<<>>, <<DueTask>>}
    /\ now \in RequestInstants
    /\ pc = "start"
    /\ stress_score = Unset
    /\ factors = Unset
    /\ factor_kwargs = Unset
    /\ debug = Unset
    /\ interventions = <<>>
    /\ candidates = <<>>
    /\ env = Unset
    /\ response = NoResponse

NextNight == CalculateStressScore \/ GetStressFactors

SpecNight == InitNight /\ [][NextNight]_vars

----------------------------------------------------------------------------
(* backend/utils/intervention_engine.py *)

optional_keywords ==
    << <<"c","o","f","f","e","e">>,
       <<"c","h","a","t">>,
       <<"c","a","t","c","h"," ","u","p">>,
       <<"s","o","c","i","a","l">>,
       <<"o","p","t","i","o","n","a","l">>,
       <<"l","u","n","c","h">>,
       <<"n","e","t","w","o","r","k","i","n","g">> >>

\* str[:n]
Truncated(text, n) == SubSeq(text, 1, Min(n, Len(text)))

\* id stands for str(uuid.uuid4()): a token no other entry of the list has
Intervention(id, type, priority, title, description, impact_score, effort_score) ==
    [id |-> id, type |-> type, priority |-> priority, title |-> title,
     description |-> description,
     impact_score |-> impact_score, effort_score |-> effort_score]

IsOverdue(t, clock) ==
    /\ t.due_date.tz # "none"
    /\ parse_datetime(t.due_date).wall < clock
    /\ ~t.completed

IsHighPriority(t) == t.priority = "high" /\ ~t.completed

\* now <= parse_datetime(e.start) <= next_week
IsUpcoming(e, clock) ==
    /\ clock <= parse_datetime(e.start).wall
    /\ parse_datetime(e.start).wall <= clock + Day(7)

IsReschedulable(e) ==
    \E k \in DOMAIN optional_keywords : Contains(Lower(e.summary), optional_keywords[k])

\* the trigger of each rule on the score and the factors
DelegateFires(score, fct) == score.task_factor > 60 * 100 /\ fct.overdue_tasks > 0
BreakDownFires_AboveOne(score, fct) ==
    score.task_factor > 60 * 100 /\ fct.high_priority_tasks > 1
BreakDownFires(score, fct) ==
    score.task_factor > 60 * 100 /\ fct.high_priority_tasks > 3
DensityFires(score, fct) ==
    score.calendar_factor > 60 * 100 /\ fct.calendar_density > 70 * 100
FocusFires(score) == score.calendar_factor > 60 * 100
SleepFires(score) == score.sleep_factor > 60 * 100
RecoveryFires(score) == score.total_score > 70 * 100
OptionalFires(score, upcoming_events) ==
    Len(upcoming_events) > 10 /\ score.total_score > 60 * 100
DeepWorkFires(score, fct) ==
    fct.events_next_7_days > 8 /\ score.total_score > 50 * 100

\* the list "interventions" before it is sorted: one entry per rule that fires
InterventionCandidates(score, fct, tsks, evs, clock) ==
    LET overdue_tasks == SelectSeq(tsks, LAMBDA t : IsOverdue(t, clock))
        high_pri_tasks == SelectSeq(tsks, IsHighPriority)
        upcoming_events == SelectSeq(evs, LAMBDA e : IsUpcoming(e, clock))
        reschedulable == SelectSeq(upcoming_events, IsReschedulable)
        delegate ==
            IF DelegateFires(score, fct) /\ overdue_tasks # <<>>
            THEN << Intervention("overdue", "delegate", "critical",
                        <<"Complete overdue: ">> \o Truncated(overdue_tasks[1].title, 30),
                        <<"'">> \o overdue_tasks[1].title
                            \o <<"' is overdue. You have ", ToString(fct.overdue_tasks),
                                 " total overdue task(s)">>,
                        40, 30) >>
            ELSE <<>>
        break_down ==
            IF BreakDownFires(score, fct) /\ high_pri_tasks # <<>>
            THEN << Intervention("high_priority", "break_down", "high",
                        <<"Break down: ">> \o Truncated(high_pri_tasks[1].title, 30),
                        <<"'">> \o high_pri_tasks[1].title
                            \o <<"' is complex. You have ", ToString(fct.high_priority_tasks),
                                 " high-priority items">>,
                        35, 20) >>
            ELSE <<>>
        density ==
            IF DensityFires(score, fct)
            THEN << Intervention("density", "reschedule", "high",
                        <<"Reduce Calendar Density">>,
                        <<"Your calendar is ", ToString(fct.calendar_density), "% full">>,
                        35, 25) >>
            ELSE <<>>
        focus ==
            IF FocusFires(score)
            THEN << Intervention("focus", "micro_break", "medium",
                        <<"Schedule Focus Blocks">>, <<"Block 2-hour windows">>,
                        20, 10) >>
            ELSE <<>>
        sleep ==
            IF SleepFires(score)
            THEN << Intervention("sleep", "reschedule", "critical",
                        <<"Protect Sleep Time">>,
                        <<"You only have ", ToString(fct.sleep_hours_available),
                          " hours for sleep">>,
                        40, 20) >>
            ELSE <<>>
        recovery ==
            IF RecoveryFires(score)
            THEN << Intervention("recovery", "micro_break", "high",
                        <<"Schedule Recovery Time">>, <<"Block a 3-hour window">>,
                        30, 15) >>
            ELSE <<>>
        optional ==
            IF OptionalFires(score, upcoming_events) /\ reschedulable # <<>>
            THEN LET event == reschedulable[1]
                     event_day == parse_datetime(event.start).wall \div MinutesPerDay
                     event_time == parse_datetime(event.start).wall % MinutesPerDay
                 IN  << Intervention("optional", "reschedule", "medium",
                            <<"Reschedule '">> \o Truncated(event.summary, 25) \o <<"'">>,
                            <<"Move '">> \o event.summary
                                \o <<"' from day ", ToString(event_day), " at ",
                                     ToString(event_time), " to next week with ",
                                     ToString(Len(upcoming_events)), " events">>,
                            25, 15) >>
            ELSE <<>>
        deep_work ==
            IF DeepWorkFires(score, fct)
            THEN << Intervention("deep_work", "micro_break", "high",
                        <<"Block 2-hour deep work sessions">>,
                        <<"With ", ToString(fct.events_next_7_days), " events this week">>,
                        30, 20) >>
            ELSE <<>>
    IN  delegate \o break_down \o density \o focus \o sleep \o recovery
        \o optional \o deep_work

\* x.impact_score / x.effort_score > y.impact_score / y.effort_score
RatioGreater(x, y) ==
    x.impact_score * y.effort_score > y.impact_score * x.effort_score

\* insertion that puts an entry before the entries of equal ratio
RECURSIVE InsertByRatio_TiesFirst(_, _)
InsertByRatio_TiesFirst(x, s) ==
    IF s = <<>> THEN <<x>>
    ELSE IF ~RatioGreater(Head(s), x) THEN <<x>> \o s
    ELSE <<Head(s)>> \o InsertByRatio_TiesFirst(x, Tail(s))

\* list.sort(key=ratio, reverse=True): stable, highest ratio first
RECURSIVE InsertByRatio(_, _)
InsertByRatio(x, s) ==
    IF s = <<>> THEN <<x>>
    ELSE IF RatioGreater(x, Head(s)) THEN <<x>> \o s
    ELSE <<Head(s)>> \o InsertByRatio(x, Tail(s))

RECURSIVE SortedByRatio(_)
SortedByRatio(s) ==
    IF s = <<>> THEN <<>>
    ELSE InsertByRatio(s[Len(s)], SortedByRatio(SubSeq(s, 1, Len(s) - 1)))

MaxInterventions == 5

\* the first five candidates, not sorted
TopInterventions_Unsorted(cands) == Truncated(cands, MaxInterventions)

\* the sorted candidates cut one entry later
TopInterventions_Six(cands) == Truncated(SortedByRatio(cands), MaxInterventions + 1)

\* interventions.sort(...); return interventions[:5]
TopInterventions(cands) == Truncated(SortedByRatio(cands), MaxInterventions)

generate_interventions(score, fct, tsks, evs, clock) ==
    TopInterventions(InterventionCandidates(score, fct, tsks, evs, clock))

----------------------------------------------------------------------------
(* backend/utils/stress_calculator.py : the calculator behind the router *)

\* returns hundredths of a percent; the window is the day of target_date
utils_calculate_calendar_density(evs, target_date) ==
    LET day_start == Midnight(target_date)
        day_end == day_start + Day(1)
        daily_events ==
            SelectSeq(evs, LAMBDA e : /\ day_start <= parse_datetime(e.start).wall
                                      /\ parse_datetime(e.start).wall < day_end)
        total_minutes == SumSeq(MapSeq(daily_events, DurationMinutes))
        waking_minutes == WakingMinutesPerDay
    IN  IF daily_events = <<>> THEN 0
        ELSE IF total_minutes >= waking_minutes THEN 100 * 100
        ELSE RoundHalfEven(total_minutes * 100 * 100, waking_minutes)

RECURSIVE MinSeq(_)
MinSeq(s) == IF Len(s) = 1 THEN Head(s) ELSE Min(Head(s), MinSeq(Tail(s)))

DefaultSleepHours == 8

\* returns hundredths of an hour
utils_calculate_sleep_opportunity(evs, clock) ==
    LET today == Midnight(clock)
        tomorrow == today + Day(1)
        yesterday == today - Day(1)
        day_after == tomorrow + Day(1)
        recent_events ==
            SelectSeq(evs, LAMBDA e : /\ yesterday <= parse_datetime(e.start).wall
                                      /\ parse_datetime(e.start).wall < day_after)
        past_events ==
            SelectSeq(recent_events, LAMBDA e : parse_datetime(e.end).wall <= clock)
        last_event_end ==
            IF past_events # <<>>
            THEN MaxSeq(MapSeq(past_events, LAMBDA e : parse_datetime(e.end).wall))
            ELSE today + 22 * 60
        future_events ==
            SelectSeq(recent_events, LAMBDA e : parse_datetime(e.start).wall > clock)
        next_event_start ==
            IF future_events # <<>>
            THEN MinSeq(MapSeq(future_events, LAMBDA e : parse_datetime(e.start).wall))
            ELSE tomorrow + 8 * 60
        reasonable_sleep_start ==
            IF last_event_end < today + 22 * 60 THEN today + 22 * 60 ELSE last_event_end
        reasonable_wake_time ==
            IF next_event_start > tomorrow + 8 * 60 THEN tomorrow + 8 * 60
            ELSE next_event_start
    IN  IF evs = <<>> THEN DefaultSleepHours * 100
        ELSE IF recent_events = <<>> THEN DefaultSleepHours * 100
        ELSE IF reasonable_wake_time > reasonable_sleep_start
             THEN RoundHalfEven(Min(reasonable_wake_time - reasonable_sleep_start,
                                    SleepCapMinutes) * 100, 60)
             ELSE 0

utils_calculate_task_pressure(tsks, clock) ==
    [overdue |-> Len(SelectSeq(tsks, LAMBDA t : IsOverdue(t, clock))),
     high_priority |-> Len(SelectSeq(tsks, IsHighPriority))]

\* the StressScore of the router's calculator (fields in hundredths)
utils_calculate_stress_score(evs, tsks, clock) ==
    LET upcoming_events == SelectSeq(evs, LAMBDA e : IsUpcoming(e, clock))
        events_count == Len(upcoming_events)
        calendar_density == utils_calculate_calendar_density(evs, clock)
        sleep_hours == utils_calculate_sleep_opportunity(evs, clock)
        pressure == utils_calculate_task_pressure(tsks, clock)
        calendar_factor == Min(calendar_density * 6000 + events_count * 2 * Micro, Hundred)
        task_factor ==
            Min(pressure.overdue * 10 * Micro + pressure.high_priority * 5 * Micro, Hundred)
        sleep_factor == Max(Hundred - sleep_hours * 125000, 0)
        total_score == calendar_factor * 4 + task_factor * 3 + sleep_factor * 3
    IN  [total_score |-> RoundHalfEven(total_score, (10 * Micro) \div 100),
         calendar_factor |-> RoundHalfEven(calendar_factor, Micro \div 100),
         task_factor |-> RoundHalfEven(task_factor, Micro \div 100),
         sleep_factor |-> RoundHalfEven(sleep_factor, Micro \div 100),
         risk_level |-> risk_level_of(total_score),
         timestamp |-> clock]

utils_get_stress_factors(evs, tsks, clock) ==
    LET upcoming_events == SelectSeq(evs, LAMBDA e : IsUpcoming(e, clock))
        pressure == utils_calculate_task_pressure(tsks, clock)
    IN  [events_next_7_days |-> Len(upcoming_events),
         overdue_tasks |-> pressure.overdue,
         high_priority_tasks |-> pressure.high_priority,
         calendar_density |-> utils_calculate_calendar_density(evs, clock),
         sleep_hours_available |-> utils_calculate_sleep_opportunity(evs, clock)]

----------------------------------------------------------------------------
(* InterventionEngine.generate_interventions as a function of its arguments *)

MaxWeekEvents == 12

EngineTaskCatalogue ==
    { [id |-> "t-essay", title |-> <<"E","s","s","a","y">>, description |-> NoneStr,
       due_date |-> Naive(Clock(0, 17, 0)), priority |-> "medium", completed |-> FALSE],
      [id |-> "t-thesis", title |-> <<"T","h","e","s","i","s"," ","d","r","a","f","t">>, description |-> NoneStr,
       due_date |-> Naive(Clock(3, 17, 0)), priority |-> "high", completed |-> FALSE],
      [id |-> "t-quiz", title |-> <<"Q","u","i","z"," ","p","r","e","p">>, description |-> NoneStr,
       due_date |-> Naive(Clock(0, 9, 0)), priority |-> "high", completed |-> TRUE],
      [id |-> "t-notes", title |-> <<"N","o","t","e","s">>, description |-> NoneStr,
       due_date |-> Naive(Clock(0, 8, 0)), priority |-> "low", completed |-> FALSE] }

\* a week of one-hour events twelve hours apart; "mixed" opens with a coffee
\* that is already over and has a lunch and a networking evening in it
WeekSummary(family, k) ==
    IF family = "mixed" /\ k = 1 THEN <<"M","o","r","n","i","n","g"," ","C","o","f","f","e","e">>
    ELSE IF family = "mixed" /\ k = 5 THEN <<"T","e","a","m"," ","L","u","n","c","h">>
    ELSE IF family = "mixed" /\ k = 8 THEN <<"N","e","t","w","o","r","k","i","n","g"," ","N","i","g","h","t">>
    ELSE <<"S","e","m","i","n","a","r">>

WeekEvent(family, k) ==
    LET start == IF family = "mixed" /\ k = 1 THEN Clock(1, 9, 0)
                 ELSE Clock(1, 13, 0) + (k - 1) * 12 * 60
    IN  [id |-> ToString(k), summary |-> WeekSummary(family, k),
         description |-> NoneStr,
         start |-> Naive(start), end |-> Naive(start + 60)]

WeekOfEvents(family, n) == [k \in 1..n |-> WeekEvent(family, k)]

EngineEventLists ==
    {<<>>} \cup {WeekOfEvents(family, n) :
                    family \in {"plain", "mixed"}, n \in 11..MaxWeekEvents}

EngineTask(id) == CHOOSE t \in EngineTaskCatalogue : t.id = id

\* the task lists given to the engine: completed tasks first, then tasks
\* not yet due, then the overdue ones, the one due latest before the one
\* due earliest
EngineTasks ==
    { [i \in 1..(c[1] + c[2] + c[3] + c[4]) |->
          IF i <= c[1] THEN EngineTask("t-quiz")
          ELSE IF i <= c[1] + c[2] THEN EngineTask("t-thesis")
          ELSE IF i <= c[1] + c[2] + c[3] THEN EngineTask("t-essay")
          ELSE EngineTask("t-notes")] :
        c \in {d \in (0..MaxTasks) \X (0..MaxTasks) \X (0..MaxTasks) \X (0..1) :
                  d[1] + d[2] + d[3] + d[4] <= MaxTasks} }

\* score fields at and above the thresholds of the rules
EngineScores ==
    [total_score : {50 * 100, 60 * 100, 70 * 100, 75 * 100},
     calendar_factor : {60 * 100, 65 * 100},
     task_factor : {60 * 100, 6592},
     sleep_factor : {60 * 100, 75 * 100},
     risk_level : {"any"},
     timestamp : RequestInstants]

EngineDensities == {70 * 100, 75 * 100}

InitEngine ==
    /\ events \in EngineEventLists
    /\ tasks \in EngineTasks
    /\ now \in RequestInstants
    /\ pc = "engine"
    /\ stress_score \in EngineScores
    /\ \E d \in EngineDensities :
          factors = [utils_get_stress_factors(events, tasks, now)
                        EXCEPT !.calendar_density = d,
                               !.sleep_hours_available =
                                    ((100 * 100 - stress_score.sleep_factor) * 2) \div 25]
    /\ factor_kwargs = Unset
    /\ debug = Unset
    /\ interventions = <<>>
    /\ candidates = <<>>
    /\ env = Unset
    /\ response = NoResponse

GenerateInterventions ==
    /\ pc = "engine"
    /\ candidates' = InterventionCandidates(stress_score, factors, tasks, events, now)
    /\ interventions' = TopInterventions(candidates')
    /\ pc' = "engine_done"
    /\ UNCHANGED <<events, tasks, now, stress_score, factors, factor_kwargs, debug,
                   env, response>>

NextEngine == GenerateInterventions

SpecEngine == InitEngine /\ [][NextEngine]_vars

----------------------------------------------------------------------------
(* StressCalculator.calculate_immediate_tasks as a function of the task list *)

MaxPressureTasks == 3

\* one task of each kind the test of the function separates: overdue, done,
\* without a deadline, due in the last minute of tomorrow, due at the first
\* minute after it, and due today with a UTC offset
PressureTaskCatalogue ==
    { [id |-> "p-late", title |-> <<"E","s","s","a","y">>, description |-> NoneStr,
       due_date |-> Naive(Clock(0, 17, 0)), priority |-> "high", completed |-> FALSE],
      [id |-> "p-done", title |-> <<"Q","u","i","z"," ","p","r","e","p">>, description |-> NoneStr,
       due_date |-> Naive(Clock(0, 9, 0)), priority |-> "high", completed |-> TRUE],
      [id |-> "p-open", title |-> <<"R","e","a","d","i","n","g">>, description |-> NoneStr,
       due_date |-> NoDate, priority |-> "medium", completed |-> FALSE],
      [id |-> "p-edge", title |-> <<"L","a","b"," ","r","e","p","o","r","t">>, description |-> NoneStr,
       due_date |-> Naive(Clock(2, 23, 59)), priority |-> "medium", completed |-> FALSE],
      [id |-> "p-next", title |-> <<"P","r","o","b","l","e","m"," ","s","e","t">>, description |-> NoneStr,
       due_date |-> Naive(Clock(3, 0, 0)), priority |-> "high", completed |-> FALSE],
      [id |-> "p-zone", title |-> <<"S","l","i","d","e","s">>, description |-> NoneStr,
       due_date |-> Aware(Clock(1, 18, 0), "+05:00"), priority |-> "low", completed |-> FALSE] }

InitPressure ==
    /\ tasks \in SeqsUpTo(PressureTaskCatalogue, MaxPressureTasks)
    /\ events = <<>>
    /\ now \in RequestInstants
    /\ pc = "pressure"
    /\ stress_score = Unset
    /\ factors = Unset
    /\ factor_kwargs = Unset
    /\ debug = Unset
    /\ interventions = <<>>
    /\ candidates = <<>>
    /\ env = Unset
    /\ response = NoResponse

CalculateImmediateTasks ==
    /\ pc = "pressure"
    /\ debug' = [immediate_tasks |-> calculate_immediate_tasks(tasks, now)]
    /\ pc' = "pressure_done"
    /\ UNCHANGED <<events, tasks, now, stress_score, factors, factor_kwargs,
                   interventions, candidates, env, response>>

NextPressure == CalculateImmediateTasks

SpecPressure == InitPressure /\ [][NextPressure]_vars

----------------------------------------------------------------------------
(* classify_event_stress as a function of the event list *)

MaxClassifyEvents == 3

InitClassify ==
    /\ events \in SeqsUpTo(ClassifyCatalogue, MaxClassifyEvents)
    /\ tasks = <<>>
    /\ now \in RequestInstants
    /\ pc = "classify"
    /\ stress_score = Unset
    /\ factors = Unset
    /\ factor_kwargs = Unset
    /\ debug = Unset
    /\ interventions = <<>>
    /\ candidates = <<>>
    /\ env = Unset
    /\ response = NoResponse

ClassifyEventStress ==
    /\ pc = "classify"
    /\ debug' = [classifications |-> classify_event_stress(events)]
    /\ pc' = "classified"
    /\ UNCHANGED <<events, tasks, now, stress_score, factors, factor_kwargs,
                   interventions, candidates, env, response>>

NextClassify == ClassifyEventStress

SpecClassify == InitClassify /\ [][NextClassify]_vars

----------------------------------------------------------------------------
(* The operations of the core called in any order on one request *)

MaxCoreEvents == 2
MaxCoreTasks == 2

\* the caller's list after an in-place sort by start
EventsAfterBreakLength_InPlace(evs) == SortedByStart(evs)

\* the caller's list after calculate_average_break_length: the function
\* filters into a new list and orders it with sorted(), which copies
EventsAfterBreakLength(evs) == evs

InitCore ==
    /\ events \in SeqsUpTo(EventCatalogue, MaxCoreEvents)
    /\ tasks \in SeqsUpTo(TaskCatalogue, MaxCoreTasks)
    /\ now \in RequestInstants
    /\ pc = "core"
    /\ stress_score = Unset
    /\ factors = Unset
    /\ factor_kwargs = Unset
    /\ debug = Unset
    /\ interventions = <<>>
    /\ candidates = <<>>
    /\ env = Unset
    /\ response = NoResponse

\* what every call leaves alone besides its arguments
CoreFrame ==
    UNCHANGED <<now, pc, stress_score, factors, factor_kwargs,
                interventions, candidates, env, response>>

CallCalendarDensity ==
    /\ debug' = [call |-> "calculate_calendar_density",
                 result |-> calculate_calendar_density(events, now)]
    /\ UNCHANGED <<events, tasks>>
    /\ CoreFrame

CallAverageBreakLength ==
    /\ debug' = [call |-> "calculate_average_break_length",
                 result |-> calculate_average_break_length(events, now)]
    /\ events' = EventsAfterBreakLength(events)
    /\ UNCHANGED tasks
    /\ CoreFrame

CallSleepOpportunity ==
    /\ debug' = [call |-> "calculate_sleep_opportunity",
                 result |-> calculate_sleep_opportunity(events, now)]
    /\ UNCHANGED <<events, tasks>>
    /\ CoreFrame

CallImmediateTasks ==
    /\ debug' = [call |-> "calculate_immediate_tasks",
                 result |-> calculate_immediate_tasks(tasks, now)]
    /\ UNCHANGED <<events, tasks>>
    /\ CoreFrame

CallClassifyEventStress ==
    /\ debug' = [call |-> "classify_event_stress",
                 result |-> classify_event_stress(events)]
    /\ UNCHANGED <<events, tasks>>
    /\ CoreFrame

CallCalculateStressScore ==
    /\ debug' = [call |-> "calculate_stress_score",
                 result |-> ReturnedStressScore(ScoreLocals(events, tasks, now), now)]
    /\ UNCHANGED <<events, tasks>>
    /\ CoreFrame

CallGetStressFactors ==
    /\ debug' = [call |-> "get_stress_factors",
                 result |-> stress_factors_kwargs(events, tasks, now)]
    /\ UNCHANGED <<events, tasks>>
    /\ CoreFrame

CallGenerateInterventions ==
    /\ debug' = [call |-> "generate_interventions",
                 result |-> generate_interventions(
                                utils_calculate_stress_score(events, tasks, now),
                                utils_get_stress_factors(events, tasks, now),
                                tasks, events, now)]
    /\ UNCHANGED <<events, tasks>>
    /\ CoreFrame

NextCore ==
    \/ CallCalendarDensity
    \/ CallAverageBreakLength
    \/ CallSleepOpportunity
    \/ CallImmediateTasks
    \/ CallClassifyEventStress
    \/ CallCalculateStressScore
    \/ CallGetStressFactors
    \/ CallGenerateInterventions

SpecCore == InitCore /\ [][NextCore]_vars

----------------------------------------------------------------------------
(* parse_datetime on ISO-8601 text and on datetime objects *)

MaxParseDay == 2

\* a str argument is a record [text |-> characters]; a datetime argument is
\* a record [wall, tz]
IsStr(dt) == "text" \in DOMAIN dt

Digit(c) == CHOOSE n \in 0..9 : ToString(n) = c
TwoDigits(n) == <<ToString(n \div 10), ToString(n % 10)>>

\* day 0 of the model's clock is 2026-11-03
EpochDayOfMonth == 3

\* "2026-11-DD" sep "HH:MM:00" suffix
FormatIso(wall, sep, suffix) ==
    <<"2","0","2","6","-","1","1","-">>
    \o TwoDigits(wall \div MinutesPerDay + EpochDayOfMonth)
    \o <<sep>>
    \o TwoDigits((wall % MinutesPerDay) \div 60) \o <<":">>
    \o TwoDigits(wall % 60) \o <<":","0","0">>
    \o suffix

\* dt.replace('Z', '+00:00')
RECURSIVE ReplaceZ(_)
ReplaceZ(text) ==
    IF text = <<>> THEN <<>>
    ELSE (IF Head(text) = "Z" THEN <<"+","0","0",":","0","0">> ELSE <<Head(text)>>)
         \o ReplaceZ(Tail(text))

\* the UTC offsets of the model, by name and as written in ISO-8601 text
Offsets ==
    { [name |-> "+00:00", text |-> <<"+","0","0",":","0","0">>],
      [name |-> "+05:00", text |-> <<"+","0","5",":","0","0">>],
      [name |-> "-08:00", text |-> <<"-","0","8",":","0","0">>] }

OffsetNamed(text) == (CHOOSE o \in Offsets : o.text = text).name

\* datetime.fromisoformat(text): the set of outcomes.  The date, the
\* separator (any single character) and the time are read by position; what
\* follows the seconds is the offset.  A literal "Z" is read as UTC by
\* interpreters from 3.11 on and rejected with ValueError by earlier ones.
fromisoformat(text) ==
    LET day == Digit(text[9]) * 10 + Digit(text[10]) - EpochDayOfMonth
        hour == Digit(text[12]) * 10 + Digit(text[13])
        minute == Digit(text[15]) * 10 + Digit(text[16])
        wall == Clock(day, hour, minute)
        offset == SubSeq(text, 20, Len(text))
    IN  IF offset = <<>> THEN {Naive(wall)}
        ELSE IF offset = <<"Z">>
             THEN {Aware(wall, "+00:00"), [raised |-> "ValueError"]}
        ELSE {Aware(wall, OffsetNamed(offset))}

\* the str branch taken without a test for 'T': every text is parsed and
\* its timezone removed
parse_datetime_outcomes_AlwaysStrip(dt) ==
    IF IsStr(dt)
    THEN {parse_datetime(r) : r \in fromisoformat(ReplaceZ(dt.text))}
    ELSE {parse_datetime(dt)}

\* parse_datetime on either kind of argument: the set of outcomes
parse_datetime_outcomes(dt) ==
    IF IsStr(dt)
    THEN IF Contains(dt.text, <<"T">>)
         THEN {parse_datetime(r) : r \in fromisoformat(ReplaceZ(dt.text))}
         ELSE fromisoformat(dt.text)
    ELSE {parse_datetime(dt)}

ParseWalls ==
    {Clock(d, h, m) : d \in 1..MaxParseDay, h \in {0, 10, 23}, m \in {0, 30}}

\* what a text can carry after the seconds
ParseSuffixes == {<<>>, <<"Z">>} \cup {o.text : o \in Offsets}

\* the wall clock written in the argument, and the argument
ParseInputs ==
    {[written |-> w, dt |-> [text |-> FormatIso(w, sep, suffix)]] :
        w \in ParseWalls, sep \in {"T", " "}, suffix \in ParseSuffixes}
    \cup {[written |-> w, dt |-> Naive(w)] : w \in ParseWalls}
    \cup {[written |-> w, dt |-> Aware(w, o.name)] : w \in ParseWalls, o \in Offsets}

InitParse ==
    /\ debug \in ParseInputs
    /\ events = <<>>
    /\ tasks = <<>>
    /\ now \in RequestInstants
    /\ pc = "parse"
    /\ stress_score = Unset
    /\ factors = Unset
    /\ factor_kwargs = Unset
    /\ interventions = <<>>
    /\ candidates = <<>>
    /\ env = Unset
    /\ response = NoResponse

ParseDatetime ==
    /\ pc = "parse"
    /\ \E r \in parse_datetime_outcomes(debug.dt) :
          debug' = [written |-> debug.written, dt |-> debug.dt, result |-> r]
    /\ pc' = "parsed"
    /\ UNCHANGED <<events, tasks, now, stress_score, factors, factor_kwargs,
                   interventions, candidates, env, response>>

NextParse == ParseDatetime

SpecParse == InitParse /\ [][NextParse]_vars

----------------------------------------------------------------------------
(* utils/ai_insights.py : the LLM layer of the router *)

\* get_openai_client(): None unless OPENAI_API_KEY is a non-empty string
HasClient(e) == e.api_key = "set"

generate_fallback_predictions(fct) ==
    LET p == (IF fct.overdue_tasks > 3 THEN <<"overdue tasks">> ELSE <<>>)
             \o (IF fct.calendar_density > 70 * 100 THEN <<"calendar density">> ELSE <<>>)
             \o (IF fct.sleep_hours_available < 6 * 100 THEN <<"sleep deficit">> ELSE <<>>)
             \o (IF fct.events_next_7_days > 20 THEN <<"event load">> ELSE <<>>)
    IN  IF p = <<>> THEN <<"manageable">> ELSE p

\* result of the chat completion: what the service does is the outcome in env
generate_burnout_predictions(evs, tsks, fct, e) ==
    IF ~HasClient(e) THEN generate_fallback_predictions(fct)
    ELSE IF e.llm_predictions = "ok" THEN <<"ai prediction">>
    ELSE generate_fallback_predictions(fct)

generate_fallback_interventions(fct) ==
    (IF fct.overdue_tasks > 0
     THEN << [id |-> "1", title |-> <<"Address overdue tasks immediately">>,
              description |-> <<"Focus on completing or rescheduling overdue items to reduce mental burden">>,
              priority |-> "critical", impact_score |-> 80, effort_score |-> 60] >>
     ELSE <<>>)
    \o (IF fct.sleep_hours_available < 7 * 100
        THEN << [id |-> "2", title |-> <<"Block sleep protection time">>,
                 description |-> <<"Schedule 7-8 hour sleep blocks in your calendar to ensure adequate rest">>,
                 priority |-> "high", impact_score |-> 85, effort_score |-> 30] >>
        ELSE <<>>)
    \o (IF fct.calendar_density > 60 * 100
        THEN << [id |-> "3", title |-> <<"Add recovery breaks between meetings">>,
                 description |-> <<"Schedule 10-15 minute breaks between back-to-back events">>,
                 priority |-> "medium", impact_score |-> 65, effort_score |-> 40] >>
        ELSE <<>>)

\* what a well-formed completion yields after json.loads and [:5]
AiInterventions ==
    << [id |-> "int-1", type |-> "reschedule", priority |-> "high",
        title |-> <<"ai title">>, description |-> <<"ai description">>,
        impact_score |-> 85, effort_score |-> 40] >>

\* aware - naive datetime arithmetic raises TypeError
IsAware(dt) == dt.tz \notin {"none", "naive"}

\* building the prompt, outside the try block: task.due_date - now for
\* tasks[:8], event.end - event.start for events[:8]
PromptRaises(evs, tsks) ==
    \/ \E i \in DOMAIN tsks : i <= 8 /\ IsAware(tsks[i].due_date)
    \/ \E i \in DOMAIN evs : i <= 8 /\ IsAware(evs[i].start) # IsAware(evs[i].end)

generate_ai_interventions(evs, tsks, fct, e) ==
    IF PromptRaises(evs, tsks) THEN [raised |-> TRUE, value |-> <<>>]
    ELSE IF ~HasClient(e) THEN [raised |-> FALSE, value |-> generate_fallback_interventions(fct)]
    ELSE IF e.llm_interventions = "ok" THEN [raised |-> FALSE, value |-> AiInterventions]
    ELSE [raised |-> FALSE, value |-> generate_fallback_interventions(fct)]

----------------------------------------------------------------------------
(* backend/routers/stress.py : POST /analyze *)

generate_fallback_predictions_local(fct) ==
    LET p == (IF fct.overdue_tasks > 3 THEN <<"overdue tasks">> ELSE <<>>)
             \o (IF fct.calendar_density > 70 * 100 THEN <<"calendar density">> ELSE <<>>)
             \o (IF fct.sleep_hours_available < 6 * 100 THEN <<"sleep deficit">> ELSE <<>>)
             \o (IF fct.events_next_7_days > 20 THEN <<"event load">> ELSE <<>>)
    IN  IF p = <<>> THEN <<"manageable">> ELSE p

\* models/schemas.py : the fields of Intervention, all required
InterventionFields ==
    {"id", "type", "priority", "title", "description", "impact_score", "effort_score"}

MaxRouterEvents == 1
MaxRouterTasks == 2

RouterTaskCatalogue ==
    { [id |-> "t-essay", title |-> <<"E","s","s","a","y">>, description |-> NoneStr,
       due_date |-> Naive(Clock(0, 17, 0)), priority |-> "medium", completed |-> FALSE],
      [id |-> "t-thesis", title |-> <<"T","h","e","s","i","s"," ","d","r","a","f","t">>, description |-> NoneStr,
       due_date |-> Naive(Clock(3, 17, 0)), priority |-> "high", completed |-> FALSE],
      [id |-> "t-report", title |-> <<"R","e","p","o","r","t">>, description |-> NoneStr,
       due_date |-> Aware(Clock(3, 9, 0), "utc"), priority |-> "low", completed |-> FALSE] }

\* OPENAI_API_KEY (unset, the empty string, or a key) and what the chat
\* completion does on each of the two calls
Environments ==
    [api_key : {"unset", "empty", "set"},
     llm_predictions : {"ok", "raises", "empty"},
     llm_interventions : {"ok", "raises", "empty"}]

InitAnalyze ==
    /\ events \in SeqsUpTo(EventCatalogue, MaxRouterEvents)
    /\ tasks \in SeqsUpTo(RouterTaskCatalogue, MaxRouterTasks)
    /\ now \in RequestInstants
    /\ env \in Environments
    /\ pc = "request"
    /\ stress_score = Unset
    /\ factors = Unset
    /\ factor_kwargs = Unset
    /\ debug = Unset
    /\ interventions = <<>>
    /\ candidates = <<>>
    /\ response = NoResponse

AnalyzeStress ==
    /\ pc = "request"
    /\ LET score == utils_calculate_stress_score(events, tasks, now)
           fct == utils_get_stress_factors(events, tasks, now)
           use_ai == env.api_key # "unset"
           predictions ==
               IF use_ai THEN generate_burnout_predictions(events, tasks, fct, env)
               ELSE generate_fallback_predictions_local(fct)
           ai == generate_ai_interventions(events, tasks, fct, env)
           rule_based == generate_interventions(score, fct, tasks, events, now)
           result == IF use_ai /\ ~ai.raised THEN ai.value ELSE rule_based
           historical_comparison ==
               IF score.total_score > 70 * 100 THEN "2.3x busier" ELSE "None"
       IN  /\ stress_score' = score
           /\ factors' = fct
           /\ interventions' = result
           /\ candidates' = InterventionCandidates(score, fct, tasks, events, now)
           /\ response' =
                IF \A i \in DOMAIN result : Validates(result[i], InterventionFields)
                THEN [status |-> 200, detail |-> "BurnoutPrediction",
                      predictions |-> predictions, interventions |-> result,
                      historical_comparison |-> historical_comparison]
                ELSE [status |-> 500, detail |-> "ValidationError"]
    /\ pc' = "responded"
    /\ UNCHANGED <<events, tasks, now, env, factor_kwargs, debug>>

NextAnalyze == AnalyzeStress

SpecAnalyze == InitAnalyze /\ [][NextAnalyze]_vars

----------------------------------------------------------------------------
(* backend/ai_response.py : invoke_model_with_retry *)

MaxRetries == 4
DefaultMaxRetries == 3

ModelIds == {"claude-haiku", "claude-sonnet"}

\* what client.invoke_model does on one call: a response whose body is
\* JSON, a ClientError with an error code, or an exception of another class
ResponseBodies == {"predictions", "interventions"}
ThrottlingException == "ThrottlingException"
ClientErrorCodes ==
    {ThrottlingException, "AccessDeniedException", "ValidationException"}
OtherExceptions == {"EndpointConnectionError"}
InvokeOutcomes == ResponseBodies \cup ClientErrorCodes \cup OtherExceptions

Invoked(outcome) == [op |-> "invoke_model", outcome |-> outcome, seconds |-> 0]
Slept(seconds) == [op |-> "sleep", outcome |-> "slept", seconds |-> seconds]

Pending == [kind |-> "pending", value |-> "none"]

\* 2 ** attempt
RECURSIVE TwoToThe(_)
TwoToThe(n) == IF n = 0 THEN 1 ELSE 2 * TwoToThe(n - 1)

wait_time_FromTwo(attempt) == TwoToThe(attempt + 1) * 1

wait_time(attempt) == TwoToThe(attempt) * 1

SleepsBeforeRetry_AfterLast(attempt, max_retries) == attempt < max_retries

\* if attempt < max_retries - 1
SleepsBeforeRetry(attempt, max_retries) == attempt < max_retries - 1

InitRetry ==
    /\ env \in [max_retries : 0..MaxRetries, model_id : ModelIds]
    /\ debug = [attempt |-> 0, trace |-> <<>>, result |-> Pending]
    /\ pc = "retry_loop"
    /\ events = <<>>
    /\ tasks = <<>>
    /\ now \in RequestInstants
    /\ stress_score = Unset
    /\ factors = Unset
    /\ factor_kwargs = Unset
    /\ interventions = <<>>
    /\ candidates = <<>>
    /\ response = NoResponse

RetryFrame ==
    UNCHANGED <<events, tasks, now, stress_score, factors, factor_kwargs,
                interventions, candidates, env, response>>

\* one pass of the loop body: the call, then what the handler does with it
Attempt ==
    /\ pc = "retry_loop"
    /\ debug.attempt < env.max_retries
    /\ \E outcome \in InvokeOutcomes :
         LET called == Append(debug.trace, Invoked(outcome))
         IN  IF outcome \in ResponseBodies
             THEN /\ debug' = [debug EXCEPT !.trace = called,
                                 !.result = [kind |-> "returned", value |-> outcome]]
                  /\ pc' = "returned"
             ELSE IF outcome = ThrottlingException
                     /\ SleepsBeforeRetry(debug.attempt, env.max_retries)
             THEN /\ debug' = [debug EXCEPT
                                 !.trace = Append(called, Slept(wait_time(debug.attempt))),
                                 !.attempt = debug.attempt + 1]
                  /\ pc' = "retry_loop"
             ELSE /\ debug' = [debug EXCEPT !.trace = called,
                                 !.result = [kind |-> "raised", value |-> outcome]]
                  /\ pc' = "raised"
    /\ RetryFrame

\* the loop ends without a return or a raise: return None
RangeExhausted ==
    /\ pc = "retry_loop"
    /\ debug.attempt >= env.max_retries
    /\ debug' = [debug EXCEPT !.result = [kind |-> "returned", value |-> "None"]]
    /\ pc' = "returned"
    /\ RetryFrame

NextRetry == Attempt \/ RangeExhausted

SpecRetry == InitRetry /\ [][NextRetry]_vars

----------------------------------------------------------------------------
(* backend/routers/calendar.py : GET /events, with utils/descope_utils.py *)

\* the Authorization header: absent, empty, a bearer token, or another scheme
NoHeader == "None"
AuthorizationHeaders == {NoHeader, "", "Bearer s1", "Bearer s2", "Basic dXNlcg=="}

NoUser == "None"

\* "if not authorization: return None", else the placeholder user id
get_user_from_session(authorization) ==
    IF authorization \in {NoHeader, ""} THEN NoUser ELSE "user_from_token"

\* what a token function of descope_utils gives back: an access token, None
\* (no tokens stored, or an AuthException, which it catches), an empty
\* accessToken, or an exception it does not catch (ValueError when the
\* Descope project id or management key is not set)
NoToken == [kind |-> "none", value |-> "None"]
TokenOutcomes ==
    { [kind |-> "token", value |-> "ya29.a"], [kind |-> "token", value |-> "ya29.b"],
      NoToken, [kind |-> "token", value |-> ""],
      [kind |-> "raised", value |-> "ValueError"] }

\* "not access_token"
Falsy(token) == token.kind = "none" \/ token.value = ""

\* what fetch_google_calendar_events does with the credentials
FetchOutcomes == {"events", "no events", "HttpError", "RefreshError"}

NoException == "none"

InitCalendar ==
    /\ env \in [authorization : AuthorizationHeaders, use_mock : BOOLEAN]
    /\ debug = [user_id |-> NoUser, trace |-> <<>>, access_token |-> NoToken,
                exception |-> NoException]
    /\ pc = "request"
    /\ events = <<>>
    /\ tasks = <<>>
    /\ now \in RequestInstants
    /\ stress_score = Unset
    /\ factors = Unset
    /\ factor_kwargs = Unset
    /\ interventions = <<>>
    /\ candidates = <<>>
    /\ response = NoResponse

CalendarFrame ==
    UNCHANGED <<events, tasks, now, stress_score, factors, factor_kwargs,
                interventions, candidates, env>>

MockEvents == [status |-> 200, detail |-> "mock_events"]

\* lines 57-66: the dependency resolves the user; no user or use_mock
\* answers the mock events
EnterGetCalendarEvents ==
    /\ pc = "request"
    /\ LET user_id == get_user_from_session(env.authorization)
       IN  /\ debug' = [debug EXCEPT !.user_id = user_id]
           /\ IF user_id = NoUser \/ env.use_mock
              THEN pc' = "answered" /\ response' = MockEvents
              ELSE pc' = "lookup" /\ response' = response
    /\ CalendarFrame

\* line 70
LookupToken ==
    /\ pc = "lookup"
    /\ \E outcome \in TokenOutcomes :
         IF outcome.kind = "raised"
         THEN /\ debug' = [debug EXCEPT !.trace = Append(@, "get_user_google_calendar_token"),
                                        !.exception = outcome.value]
              /\ pc' = "except"
         ELSE /\ debug' = [debug EXCEPT !.trace = Append(@, "get_user_google_calendar_token"),
                                        !.access_token = outcome]
              /\ pc' = IF Falsy(outcome) THEN "refresh" ELSE "check"
    /\ UNCHANGED response
    /\ CalendarFrame

\* lines 72-74
RefreshToken ==
    /\ pc = "refresh"
    /\ \E outcome \in TokenOutcomes :
         IF outcome.kind = "raised"
         THEN /\ debug' = [debug EXCEPT !.trace = Append(@, "refresh_user_google_calendar_token"),
                                        !.exception = outcome.value]
              /\ pc' = "except"
         ELSE /\ debug' = [debug EXCEPT !.trace = Append(@, "refresh_user_google_calendar_token"),
                                        !.access_token = outcome]
              /\ pc' = "check"
    /\ UNCHANGED response
    /\ CalendarFrame

\* lines 76-91; the HTTPException of line 77 is raised inside the try block,
\* whose "except Exception" catches it like any other exception
CheckTokenAndFetch ==
    /\ pc = "check"
    /\ IF Falsy(debug.access_token)
       THEN /\ debug' = [debug EXCEPT !.exception = "HTTPException 401"]
            /\ pc' = "except"
            /\ response' = response
       ELSE \E outcome \in FetchOutcomes :
              IF outcome \in {"HttpError", "RefreshError"}
              THEN /\ debug' = [debug EXCEPT !.trace = Append(@, "fetch_google_calendar_events"),
                                             !.exception = outcome]
                   /\ pc' = "except"
                   /\ response' = response
              ELSE /\ debug' = [debug EXCEPT !.trace = Append(@, "fetch_google_calendar_events")]
                   /\ pc' = "answered"
                   /\ response' = [status |-> 200, detail |-> outcome]
    /\ CalendarFrame

\* lines 93-96: log the error, fall back to the mock events
ExceptReturnsMock ==
    /\ pc = "except"
    /\ response' = MockEvents
    /\ pc' = "answered"
    /\ UNCHANGED debug
    /\ CalendarFrame

NextCalendar ==
    \/ EnterGetCalendarEvents
    \/ LookupToken
    \/ RefreshToken
    \/ CheckTokenAndFetch
    \/ ExceptReturnsMock

SpecCalendar == InitCalendar /\ [][NextCalendar]_vars

----------------------------------------------------------------------------
(* backend/routers/tasks.py : the task list and its endpoints *)

MaxStoredTasks == 5

\* mock_tasks as the module builds it on import (now is the import time)
mock_tasks ==
    << [id |-> "1", title |-> <<"M","a","t","h">>, description |-> NoneStr,
        due_date |-> Naive(Clock(1, 12, 0) + Day(2)), priority |-> "high", completed |-> FALSE],
       [id |-> "2", title |-> <<"S","t","u","d","y">>, description |-> NoneStr,
        due_date |-> Naive(Clock(1, 12, 0) + Day(3)), priority |-> "high", completed |-> FALSE],
       [id |-> "3", title |-> <<"L","a","b">>, description |-> NoneStr,
        due_date |-> Naive(Clock(1, 12, 0) - Day(1)), priority |-> "high", completed |-> FALSE],
       [id |-> "4", title |-> <<"R","e","a","d">>, description |-> NoneStr,
        due_date |-> Naive(Clock(1, 12, 0) + Day(5)), priority |-> "medium", completed |-> FALSE] >>

\* request bodies: a task whose id is already stored and one with a new id
TaskBodies ==
    { [id |-> "2", title |-> <<"D","r","a","f","t">>, description |-> NoneStr,
       due_date |-> NoDate, priority |-> "medium", completed |-> FALSE],
      [id |-> "9", title |-> <<"P","l","a","n">>, description |-> NoneStr,
       due_date |-> NoDate, priority |-> "medium", completed |-> TRUE] }

\* path parameters: ids of mock tasks, the new id, an id nothing ever has
TaskIds == {"2", "3", "9", "404"}

\* the index enumerate() reaches first with t.id == task_id, 0 when none
FirstWithId(list, task_id) ==
    IF \E i \in DOMAIN list : list[i].id = task_id
    THEN CHOOSE i \in DOMAIN list :
            /\ list[i].id = task_id
            /\ \A j \in 1..(i - 1) : list[j].id # task_id
    ELSE 0

\* list.pop(i)
Pop(list, i) == [k \in 1..(Len(list) - 1) |-> IF k < i THEN list[k] ELSE list[k + 1]]

RECURSIVE WithoutId(_, _)
WithoutId(list, task_id) ==
    IF list = <<>> THEN <<>>
    ELSE IF Head(list).id = task_id THEN WithoutId(Tail(list), task_id)
    ELSE <<Head(list)>> \o WithoutId(Tail(list), task_id)

AfterDelete_EveryMatch(list, task_id) == WithoutId(list, task_id)

\* mock_tasks after delete_task found the id
AfterDelete(list, task_id) == Pop(list, FirstWithId(list, task_id))

\* mock_tasks after update_task found the id
AfterUpdate(list, task_id, task) == [list EXCEPT ![FirstWithId(list, task_id)] = task]

NotFound == [status |-> 404, detail |-> "Task not found"]
Ok == [status |-> 200, detail |-> "ok"]

InitTasks ==
    /\ tasks = mock_tasks
    /\ debug = [op |-> "import", task_id |-> "None"]
    /\ pc = "serving"
    /\ events = <<>>
    /\ now \in RequestInstants
    /\ stress_score = Unset
    /\ factors = Unset
    /\ factor_kwargs = Unset
    /\ interventions = <<>>
    /\ candidates = <<>>
    /\ env = Unset
    /\ response = NoResponse

TasksFrame ==
    UNCHANGED <<events, now, pc, stress_score, factors, factor_kwargs,
                interventions, candidates, env>>

get_tasks ==
    /\ debug' = [op |-> "get_tasks", task_id |-> "None"]
    /\ response' = Ok
    /\ UNCHANGED tasks
    /\ TasksFrame

create_task ==
    /\ Len(tasks) < MaxStoredTasks
    /\ \E task \in TaskBodies :
         /\ tasks' = Append(tasks, task)
         /\ debug' = [op |-> "create_task", task_id |-> task.id]
    /\ response' = Ok
    /\ TasksFrame

update_task ==
    /\ \E task_id \in TaskIds, task \in TaskBodies :
         /\ debug' = [op |-> "update_task", task_id |-> task_id]
         /\ IF FirstWithId(tasks, task_id) # 0
            THEN /\ tasks' = AfterUpdate(tasks, task_id, task)
                 /\ response' = Ok
            ELSE /\ tasks' = tasks
                 /\ response' = NotFound
    /\ TasksFrame

delete_task ==
    /\ \E task_id \in TaskIds :
         /\ debug' = [op |-> "delete_task", task_id |-> task_id]
         /\ IF FirstWithId(tasks, task_id) # 0
            THEN /\ tasks' = AfterDelete(tasks, task_id)
                 /\ response' = Ok
            ELSE /\ tasks' = tasks
                 /\ response' = NotFound
    /\ TasksFrame

NextTasks == get_tasks \/ create_task \/ update_task \/ delete_task

SpecTasks == InitTasks /\ [][NextTasks]_vars

----------------------------------------------------------------------------
(* One analysis request while the clock runs: every datetime.now() of *)
(* calculate_stress_score, calculate_immediate_tasks and              *)
(* get_stress_factors is a reading of its own                         *)

MaxClockEvents == 2
MaxClockTasks == 1

\* the minute before midnight, midnight, and the minute after
ClockInstants == {Clock(1, 23, 59), Clock(2, 0, 0), Clock(2, 0, 1)}

\* an event of today, a night shift, and one on the first day after the window
ClockEvents == {e \in EventCatalogue : e.id \in {"lecture", "shift", "flight"}}

\* a task due yesterday and one due at the start of the day after tomorrow
ClockTasks == {t \in PressureTaskCatalogue : t.id \in {"p-late", "p-next"}}

InitClock ==
    /\ events \in SeqsUpTo(ClockEvents, MaxClockEvents)
    /\ tasks \in SeqsUpTo(ClockTasks, MaxClockTasks)
    /\ now \in ClockInstants
    /\ pc = "start"
    /\ env = [readings |-> <<>>]
    /\ stress_score = Unset
    /\ factors = Unset
    /\ factor_kwargs = Unset
    /\ debug = Unset
    /\ interventions = <<>>
    /\ candidates = <<>>
    /\ response = NoResponse

\* time passes between two statements of the handler
ClockAdvances ==
    /\ pc \in {"start", "scored"}
    /\ \E later \in ClockInstants : later > now /\ now' = later
    /\ UNCHANGED <<events, tasks, pc, stress_score, factors, factor_kwargs, debug,
                   interventions, candidates, env, response>>

\* calculate_stress_score: line 146 reads the clock, line 158 calls
\* calculate_immediate_tasks, which reads it again
ClockCalculateStressScore ==
    /\ pc = "start"
    /\ \E task_clock \in ClockInstants :
         /\ task_clock >= now
         /\ debug' = ScoreLocalsAt(events, tasks, now, task_clock)
         /\ env' = [readings |-> env.readings \o <<now, task_clock>>]
         /\ now' = task_clock
    /\ stress_score' = ReturnedStressScore(debug', now)
    /\ pc' = "scored"
    /\ UNCHANGED <<events, tasks, factors, factor_kwargs, interventions,
                   candidates, response>>

\* get_stress_factors: line 214 reads the clock, line 217 calls
\* calculate_immediate_tasks, which reads it again
ClockGetStressFactors ==
    /\ pc = "scored"
    /\ \E task_clock \in ClockInstants :
         /\ task_clock >= now
         /\ LET kwargs == stress_factors_kwargs_at(events, tasks, now, task_clock)
            IN  /\ factor_kwargs' = kwargs
                /\ IF Validates(kwargs, StressFactorsFields)
                   THEN /\ factors' = [f \in StressFactorsFields |-> kwargs[f]]
                        /\ pc' = "factored"
                        /\ response' = response
                   ELSE /\ factors' = factors
                        /\ pc' = "error"
                        /\ response' = [status |-> 500, detail |-> "ValidationError"]
         /\ env' = [readings |-> env.readings \o <<now, task_clock>>]
         /\ now' = task_clock
    /\ UNCHANGED <<events, tasks, stress_score, debug, interventions, candidates>>

NextClock == ClockAdvances \/ ClockCalculateStressScore \/ ClockGetStressFactors

SpecClock == InitClock /\ [][NextClock]_vars

----------------------------------------------------------------------------
(* backend/google_calendar.py : GoogleCalendarClient *)

MaxSelected == 2

CalendarIds == {"primary", "work", "family"}

\* self.credentials: None, credentials that are valid, credentials whose
\* token has expired
NoCredentials == "None"
CredentialStates == {NoCredentials, "valid", "expired"}

\* the argument of set_selected_calendars: None or a list of ids
NoList == <<"None">>
SelectionArguments == {NoList} \cup SeqsUpTo(CalendarIds, MaxSelected)

selected_calendar_ids_KeepsEmpty(calendar_ids) == calendar_ids

\* "if not calendar_ids: calendar_ids = ['primary']", then the assignment
selected_calendar_ids(calendar_ids) ==
    IF calendar_ids = NoList \/ calendar_ids = <<>> THEN <<"primary">> ELSE calendar_ids

\* self.credentials is not None and self.credentials.valid
is_authenticated(credentials) == credentials # NoCredentials /\ credentials = "valid"

\* the client after __init__: the default selection, and the credentials
\* _load_credentials found in token.json, if the file is there
InitGoogle ==
    /\ env \in { c \in [credentials : CredentialStates, token_file : BOOLEAN,
                       selected_calendar_ids : {<<"primary">>}] :
                    ~c.token_file => c.credentials = NoCredentials }
    /\ debug = [op |-> "__init__", argument |-> NoList, result |-> NoList]
    /\ pc = "client"
    /\ events = <<>>
    /\ tasks = <<>>
    /\ now \in RequestInstants
    /\ stress_score = Unset
    /\ factors = Unset
    /\ factor_kwargs = Unset
    /\ interventions = <<>>
    /\ candidates = <<>>
    /\ response = NoResponse

GoogleFrame ==
    UNCHANGED <<events, tasks, now, pc, stress_score, factors, factor_kwargs,
                interventions, candidates, response>>

set_selected_calendars ==
    /\ \E calendar_ids \in SelectionArguments :
         /\ env' = [env EXCEPT !.selected_calendar_ids = selected_calendar_ids(calendar_ids)]
         /\ debug' = [op |-> "set_selected_calendars", argument |-> calendar_ids,
                      result |-> NoList]
    /\ GoogleFrame

get_selected_calendars ==
    /\ debug' = [op |-> "get_selected_calendars", argument |-> NoList,
                 result |-> env.selected_calendar_ids]
    /\ UNCHANGED env
    /\ GoogleFrame

\* removes token.json when it is there, then forgets the credentials and
\* the selection; an unlink that fails raises before either assignment
disconnect ==
    /\ \/ /\ env' = [credentials |-> NoCredentials, token_file |-> FALSE,
                     selected_calendar_ids |-> <<"primary">>]
          /\ debug' = [op |-> "disconnect", argument |-> NoList, result |-> NoList]
       \/ /\ env.token_file
          /\ env' = env
          /\ debug' = [op |-> "disconnect", argument |-> NoList,
                       result |-> <<"PermissionError">>]
    /\ GoogleFrame

\* the OAuth callback stores fresh credentials and writes token.json
handle_oauth_callback ==
    /\ env' = [env EXCEPT !.credentials = "valid", !.token_file = TRUE]
    /\ debug' = [op |-> "handle_oauth_callback", argument |-> NoList, result |-> NoList]
    /\ GoogleFrame

\* the access token of the credentials runs out
TokenExpires ==
    /\ env.credentials = "valid"
    /\ env' = [env EXCEPT !.credentials = "expired"]
    /\ UNCHANGED debug
    /\ GoogleFrame

NextGoogle ==
    \/ set_selected_calendars
    \/ get_selected_calendars
    \/ disconnect
    \/ handle_oauth_callback
    \/ TokenExpires

SpecGoogle == InitGoogle /\ [][NextGoogle]_vars

----------------------------------------------------------------------------
(* Properties of the stress calculator *)

Scored == pc # "start"
FactorsCalled == pc \in {"factored", "error"}

ScoreFields == {"total_score", "calendar_factor", "task_factor", "sleep_factor"}

\* C1: every score field of the returned StressScore is within [0,100], and
\* so is the calendar_density that get_stress_factors reports.
C1_ScoresWithinRange ==
    /\ Scored => \A f \in ScoreFields :
                    stress_score[f] >= 0 /\ stress_score[f] <= 100 * 100
    /\ FactorsCalled =>
          factor_kwargs.calendar_density >= 0
          /\ factor_kwargs.calendar_density <= 100 * 100

\* both clamps of the calendar figures are exercised: a week booked over its
\* waking hours, reported by both operations
C1_Witness ==
    /\ FactorsCalled
    /\ factor_kwargs.calendar_density = 100 * 100
    /\ debug.calendar_density = 100 * 100
    /\ stress_score.total_score > 0

\* the tier of a returned (rounded) total, thresholds inclusive below
TierOfReturned(total) ==
    IF total >= 80 * 100 THEN "critical"
    ELSE IF total >= 60 * 100 THEN "high"
    ELSE IF total >= 40 * 100 THEN "medium"
    ELSE "low"

\* C2: risk_level is the tier of the returned total_score.
C2_RiskFromReturnedTotal ==
    Scored => stress_score.risk_level = TierOfReturned(stress_score.total_score)

\* C5: empty events and tasks: both operations complete, with zero factors,
\* the maximal break, zero density and risk "low".
C5_EmptyRequestDefaults ==
    (events = <<>> /\ tasks = <<>>) =>
        /\ Scored =>
              /\ stress_score.calendar_factor = 0
              /\ stress_score.task_factor = 0
              /\ stress_score.sleep_factor = 0
              /\ stress_score.risk_level = "low"
              /\ debug.break_factor = 0
              /\ debug.avg_break = 16 * 60 * 100
              /\ debug.calendar_density = 0
        /\ pc # "error"
        /\ FactorsCalled => factors.calendar_density = 0

\* indices of the events whose start lies in [start_of_today, + 7 days)
WindowIndices ==
    {i \in DOMAIN events :
        /\ Midnight(now) <= events[i].start.wall
        /\ events[i].start.wall < Midnight(now) + 7 * MinutesPerDay}

RECURSIVE MinutesOfIndices(_)
MinutesOfIndices(I) ==
    IF I = {} THEN 0
    ELSE LET i == CHOOSE j \in I : TRUE
         IN  (events[i].end.wall - events[i].start.wall) + MinutesOfIndices(I \ {i})

\* min(minutes / waking * 100, 100) to two decimals, in hundredths
PercentOfWaking(minutes, waking) ==
    IF minutes >= waking THEN 100 * 100
    ELSE RoundHalfEven(minutes * 100 * 100, waking)

DayOfEvent(i) == events[i].start.wall \div MinutesPerDay

ThreeSameDayEvents240 ==
    /\ Len(events) = 3
    /\ WindowIndices = DOMAIN events
    /\ \A i \in DOMAIN events : DayOfEvent(i) = DayOfEvent(1)
    /\ MinutesOfIndices(DOMAIN events) = 240

OneEntireDayEvent ==
    /\ Len(events) = 1
    /\ WindowIndices = {1}
    /\ events[1].start.wall % MinutesPerDay = 0
    /\ events[1].end.wall = events[1].start.wall + MinutesPerDay

C9_DensityOfWindow ==
    LET expected == IF WindowIndices = {} THEN 0
                    ELSE PercentOfWaking(MinutesOfIndices(WindowIndices), 16 * 60 * 7)
    IN  /\ Scored => debug.calendar_density = expected
        /\ FactorsCalled => factor_kwargs.calendar_density = expected

\* an event starting before "now" on the request day counts in full, one
\* starting after the window does not
C9_Witness ==
    /\ Scored
    /\ \E i \in WindowIndices : events[i].start.wall < now
    /\ \E i \in DOMAIN events : i \notin WindowIndices
    /\ debug.calendar_density > 0
    /\ debug.calendar_density < 100 * 100

\* the sleep window of night d (d = 1..7) of the week of the request
NightStart(d) == Midnight(now) + (d - 1) * MinutesPerDay + 22 * 60
NightEnd(d) == Midnight(now) + d * MinutesPerDay + 8 * 60

\* an event is in progress somewhere inside (a, b)
BusyWithin(a, b) ==
    \E i \in DOMAIN events :
        /\ events[i].start.wall < events[i].end.wall
        /\ events[i].start.wall < b
        /\ events[i].end.wall > a

\* length of the longest sub-interval of night d with no event in progress
LongestFreeMinutes(d) ==
    LET clip(t) == Max(NightStart(d), Min(t, NightEnd(d)))
        bounds == {NightStart(d), NightEnd(d)}
                  \cup {clip(events[i].start.wall) : i \in DOMAIN events}
                  \cup {clip(events[i].end.wall) : i \in DOMAIN events}
        free == {b - a : <<a, b>> \in {p \in bounds \X bounds :
                                          p[1] < p[2] /\ ~BusyWithin(p[1], p[2])}}
    IN  IF free = {} THEN 0 ELSE CHOOSE m \in free : \A n \in free : n <= m

\* C10: each per-night value is the longest event-free stretch of that night.
C10_NightIsLongestFreeStretch ==
    Scored => \A d \in 1..7 : debug.sleep_nights[d] = LongestFreeMinutes(d)

\* the windowed events in the order of a stable sort by start: i comes
\* before j when it starts earlier, or at the same instant and earlier in
\* the request
StartsBefore(i, j) ==
    \/ events[i].start.wall < events[j].start.wall
    \/ events[i].start.wall = events[j].start.wall /\ i < j

RankInWindow(i) == Cardinality({j \in WindowIndices : StartsBefore(j, i)}) + 1

PreviousInWindow(i) ==
    CHOOSE j \in WindowIndices : RankInWindow(j) = RankInWindow(i) - 1

\* start of event i minus end of the event before it
GapBefore(i) == events[i].start.wall - events[PreviousInWindow(i)].end.wall

PositiveGapIndices ==
    {i \in WindowIndices : RankInWindow(i) > 1 /\ GapBefore(i) > 0}

RECURSIVE GapsOfIndices(_)
GapsOfIndices(I) ==
    IF I = {} THEN 0
    ELSE LET i == CHOOSE j \in I : TRUE
         IN  GapBefore(i) + GapsOfIndices(I \ {i})

\* C11: 16*60 minutes with fewer than 2 windowed events; otherwise the mean
\* (to two decimals) of the strictly positive gaps between consecutive
\* events sorted by start, 0.0 when no gap is positive; never negative.
C11_AverageBreak ==
    Scored =>
        /\ debug.avg_break >= 0
        /\ debug.avg_break =
              IF Cardinality(WindowIndices) < 2 THEN 16 * 60 * 100
              ELSE IF PositiveGapIndices = {} THEN 0
              ELSE RoundHalfEven(GapsOfIndices(PositiveGapIndices) * 100,
                                 Cardinality(PositiveGapIndices))

\* three windowed events given out of start order, one gap positive and one
\* overlap that is discarded
C11_Witness ==
    /\ Scored
    /\ Cardinality(WindowIndices) = 3
    /\ Cardinality(PositiveGapIndices) = 1
    /\ \E i, j \in WindowIndices : i < j /\ StartsBefore(j, i)
    /\ debug.avg_break > 0

\* 23:59 of the day after the request, the last minute of tomorrow
EndOfTomorrow == (now \div MinutesPerDay + 1) * MinutesPerDay + (MinutesPerDay - 1)

PressureDone == pc = "pressure_done"

HasDue(t) == t.due_date.tz # "none"

ImmediateIndices ==
    {i \in DOMAIN tasks :
        /\ ~tasks[i].completed
        /\ HasDue(tasks[i])
        /\ tasks[i].due_date.wall <= EndOfTomorrow}

OverdueIndices ==
    {i \in DOMAIN tasks :
        ~tasks[i].completed /\ HasDue(tasks[i]) /\ tasks[i].due_date.wall < now}

Classified == pc = "classified"

\* summary, a space, and the description when there is one
TextOf(e) ==
    e.summary \o <<" ">> \o (IF e.description = NoneStr THEN <<>> ELSE e.description)

\* keyword occurs in text at some offset, letter case of the text ignored
OccursIn(keyword, text) ==
    \E before \in 0..Len(text) :
        /\ before + Len(keyword) <= Len(text)
        /\ \A i \in 1..Len(keyword) : LowerChar(text[before + i]) = keyword[i]

MatchesHighStress(e) ==
    \E k \in DOMAIN HIGH_STRESS_KEYWORDS : OccursIn(HIGH_STRESS_KEYWORDS[k], TextOf(e))

MatchesRecreational(e) ==
    \E k \in DOMAIN RECREATIONAL_KEYWORDS : OccursIn(RECREATIONAL_KEYWORDS[k], TextOf(e))

\* the event at position k is the last of the list with its id
LastWithId(k) == \A j \in DOMAIN events : events[j].id = events[k].id => j <= k

BreakStep(minutes_x100) ==
    CHOOSE f \in {0, 30, 60, 90} :
        /\ f = 0 <=> minutes_x100 >= 60 * 100
        /\ f = 30 <=> (30 * 100 <= minutes_x100 /\ minutes_x100 < 60 * 100)
        /\ f = 60 <=> (15 * 100 <= minutes_x100 /\ minutes_x100 < 30 * 100)
        /\ f = 90 <=> minutes_x100 < 15 * 100

\* C18: break_factor is the step function of the average break with the
\* boundaries inclusive below, and total_score is calendar 0.30 + task 0.20
\* + sleep 0.30 + break 0.20, to two decimals (the sum is taken in tenths,
\* weights 3, 2, 3, 2, on factors in millionths).
C18_BreakFactorAndWeights ==
    Scored =>
        /\ debug.break_factor = BreakStep(debug.avg_break)
        /\ stress_score.total_score =
              RoundHalfEven(3 * debug.calendar_factor + 2 * debug.task_factor
                            + 3 * debug.sleep_factor
                            + 2 * debug.break_factor * Micro,
                            Micro \div 10)

\* an average break of exactly 15 minutes gives 60, and the total carries it
C18_Witness ==
    /\ Scored
    /\ debug.avg_break = 15 * 100
    /\ debug.break_factor = 60
    /\ stress_score.total_score >= 12 * 100

\* the two counts the delegate and break_down rules read
OverdueCount == Cardinality(OverdueIndices)
HighPriorityCount ==
    Cardinality({i \in DOMAIN tasks : tasks[i].priority = "high" /\ ~tasks[i].completed})

\* C19: the canonical get_stress_factors returns a record that satisfies
\* the StressFactors schema and carries overdue_tasks and
\* high_priority_tasks with the counts of the task list.
C19_FactorsCarryTaskCounts ==
    FactorsCalled =>
        /\ pc = "factored"
        /\ Validates(factor_kwargs, StressFactorsFields)
        /\ factor_kwargs.overdue_tasks = OverdueCount
        /\ factor_kwargs.high_priority_tasks = HighPriorityCount

Parsed == pc = "parsed"

\* C20: for every ISO-8601 text (with 'T' or a space, with or without an
\* offset, with a trailing 'Z') and every datetime object the result of
\* parse_datetime has no timezone and the wall clock written in the input.
C20_AlwaysNaive ==
    Parsed =>
        /\ "raised" \notin DOMAIN debug.result
        /\ debug.result.tz = "naive"
        /\ debug.result.wall = debug.written

----------------------------------------------------------------------------
(* Properties of the intervention engine *)

EngineDone == pc = "engine_done"

Range(seq) == {seq[i] : i \in DOMAIN seq}

SameRatio(x, y) == ~RatioGreater(x, y) /\ ~RatioGreater(y, x)

\* C3: at most 5 entries, ordered by impact/effort non-increasing, and no
\* candidate left out has a higher ratio than an entry of the list.
C3_TopFiveByRatio ==
    EngineDone =>
        /\ Len(interventions) <= 5
        /\ Range(interventions) \subseteq Range(candidates)
        /\ \A i, j \in DOMAIN interventions :
              i < j => ~RatioGreater(interventions[j], interventions[i])
        /\ \A c \in Range(candidates) \ Range(interventions) :
              \A x \in Range(interventions) : ~RatioGreater(c, x)

\* more rules fire than the list can hold, and a lower-ratio one is cut
C3_Witness ==
    /\ EngineDone
    /\ Len(candidates) > 5
    /\ Len(interventions) = 5
    /\ \E c \in Range(candidates) \ Range(interventions) :
          RatioGreater(interventions[1], c)

\* C4 as stated: strictly sorted, no two entries with the same ratio.
C4_StrictlySorted ==
    EngineDone =>
        \A i, j \in DOMAIN interventions :
            i < j => RatioGreater(interventions[i], interventions[j])

PositionIn(seq, x) == CHOOSE i \in DOMAIN seq : seq[i] = x

\* C4 amended: sorted non-increasing; entries of equal ratio can occur
\* together and then keep the order in which their rules are evaluated.
C4_SortedTiesInRuleOrder ==
    EngineDone =>
        \A i, j \in DOMAIN interventions :
            i < j =>
                \/ RatioGreater(interventions[i], interventions[j])
                \/ /\ SameRatio(interventions[i], interventions[j])
                   /\ PositionIn(candidates, interventions[i])
                        < PositionIn(candidates, interventions[j])

C4_Witness ==
    /\ EngineDone
    /\ \E i, j \in DOMAIN interventions :
          /\ i < j
          /\ SameRatio(interventions[i], interventions[j])
          /\ interventions[i].id = "focus"
          /\ interventions[j].id = "recovery"

IncompleteOverdue == {i \in DOMAIN tasks : IsOverdue(tasks[i], now)}
IncompleteHighPriority == {i \in DOMAIN tasks : IsHighPriority(tasks[i])}

\* task_factor > 60, exactly 1 incomplete overdue task, exactly 2 incomplete
\* high-priority tasks, the factors carrying these counts
C7_Scenario ==
    /\ stress_score.task_factor > 60 * 100
    /\ Cardinality(IncompleteOverdue) = 1
    /\ Cardinality(IncompleteHighPriority) = 2
    /\ factors.overdue_tasks = 1
    /\ factors.high_priority_tasks = 2

DelegateNamingOverdue(list) ==
    \E x \in Range(list) :
        /\ x.type = "delegate"
        /\ \E i \in IncompleteOverdue : Contains(x.description, tasks[i].title)

BreakDownNamingHighPriority(list) ==
    \E x \in Range(list) :
        /\ x.type = "break_down"
        /\ \E i \in IncompleteHighPriority : Contains(x.description, tasks[i].title)

\* C7 as stated: in the scenario the list has a delegate entry naming the
\* overdue task and a break_down entry naming a high-priority task.
C7_DelegateAndBreakDown ==
    (EngineDone /\ C7_Scenario) =>
        /\ DelegateNamingOverdue(interventions)
        /\ BreakDownNamingHighPriority(interventions)

\* C7 amended: in the scenario no break_down entry is produced (the rule
\* needs more than 3 high-priority tasks); the delegate entry naming the
\* overdue task is generated, and it is in the returned list exactly when at
\* most four other rules fire.
C7_DelegateOnly ==
    (EngineDone /\ C7_Scenario) =>
        /\ \A x \in Range(candidates) : x.type # "break_down"
        /\ DelegateNamingOverdue(candidates)
        /\ DelegateNamingOverdue(interventions) <=> Len(candidates) <= 5

C7_Witness ==
    /\ EngineDone
    /\ C7_Scenario
    /\ DelegateNamingOverdue(interventions)
    /\ Len(interventions) > 1

\* the incomplete overdue tasks with the smallest due instant
EarliestOverdue ==
    {i \in IncompleteOverdue :
        \A j \in IncompleteOverdue : tasks[i].due_date.wall <= tasks[j].due_date.wall}

DelegateEntries == {x \in Range(candidates) : x.type = "delegate"}

\* C14: the task named in the title and the description of the delegate
\* intervention is the incomplete overdue task with the smallest due
\* instant, whatever the order of the task list.
C14_DelegateNamesEarliest ==
    EngineDone =>
        \A x \in DelegateEntries :
            \E i \in EarliestOverdue :
                /\ Contains(x.title, tasks[i].title)
                /\ Contains(x.description, tasks[i].title)

\* task_factor > 60, some incomplete task overdue, and the factors carrying
\* the count of those tasks
C15_Scenario ==
    /\ stress_score.task_factor > 60 * 100
    /\ IncompleteOverdue # {}
    /\ factors.overdue_tasks = Cardinality(IncompleteOverdue)

CriticalDelegateIn(list) ==
    \E x \in Range(list) : x.type = "delegate" /\ x.priority = "critical"

\* C15 as stated: in the scenario the returned list contains a delegate
\* intervention of priority critical, whichever other rules fire.
C15_DelegateAlwaysReturned ==
    (EngineDone /\ C15_Scenario) => CriticalDelegateIn(interventions)

\* C15 amended: in the scenario a delegate intervention of priority critical
\* is generated; its impact/effort ratio is the lowest of all rules, so it is
\* in the returned list exactly when at most five rules fire in all.
C15_DelegateUnlessCut ==
    (EngineDone /\ C15_Scenario) =>
        /\ CriticalDelegateIn(candidates)
        /\ \A x \in DelegateEntries :
              \A y \in Range(candidates) : ~RatioGreater(x, y)
        /\ CriticalDelegateIn(interventions) <=> Len(candidates) <= 5

\* six or more rules fire and the delegate entry is the one left out
C15_Witness ==
    /\ EngineDone
    /\ C15_Scenario
    /\ Len(candidates) > 5
    /\ CriticalDelegateIn(candidates)
    /\ ~CriticalDelegateIn(interventions)

\* the entries of the optional-event reschedule rule
OptionalEntries ==
    {x \in Range(candidates) : x.type = "reschedule" /\ Head(x.title) = "Reschedule '"}

HasOptionalKeyword(e) ==
    \E k \in DOMAIN optional_keywords : OccursIn(optional_keywords[k], e.summary)

\* the events of the analysis window whose summary has an optional keyword
OptionalInWindow == {i \in WindowIndices : HasOptionalKeyword(events[i])}

\* C16: the optional-event rule counts and searches exactly the events of
\* the analysis window [start_of_today, start_of_today + 7 days): with
\* total_score > 60 it produces its intervention iff the window holds more
\* than 10 events and one of them has an optional keyword, and the event it
\* names is such an event.
C16_OptionalRuleOnWindow ==
    (EngineDone /\ stress_score.total_score > 60 * 100) =>
        /\ OptionalEntries # {} <=>
              (Cardinality(WindowIndices) > 10 /\ OptionalInWindow # {})
        /\ \A x \in OptionalEntries :
              \E i \in OptionalInWindow : Contains(x.description, events[i].summary)

----------------------------------------------------------------------------
(* Properties of the core as a whole *)

----------------------------------------------------------------------------
(* Properties of the router *)

Responded == pc = "responded"

\* the LLM call for interventions is unavailable (no key, no client) or
\* fails (raises, or returns nothing usable)
LlmUnavailableOrFailed ==
    \/ env.api_key \in {"unset", "empty"}
    \/ env.llm_interventions \in {"raises", "empty"}

\* C6: when the LLM call for interventions is unavailable or fails, the
\* response is not an error and carries the interventions the rule-based
\* engine produces for the same score, factors, tasks and events.
C6_EngineIsTheFallback ==
    (Responded /\ LlmUnavailableOrFailed) =>
        /\ response.status = 200
        /\ interventions = generate_interventions(stress_score, factors, tasks, events, now)

----------------------------------------------------------------------------
(* Properties of invoke_model_with_retry *)

CallPositions == {i \in DOMAIN debug.trace : debug.trace[i].op = "invoke_model"}
SleepPositions == {i \in DOMAIN debug.trace : debug.trace[i].op = "sleep"}
CallsUpTo(i) == Cardinality({j \in CallPositions : j <= i})
RetryEnded == pc \in {"returned", "raised"}

\* C21: invoke_model is called at most max_retries times; a call after the
\* first comes only after a ThrottlingException and the sleep that follows
\* it; every sleep leaves an attempt to make, so none follows the last
\* attempt; a successful response ends the function with that response and
\* no further call; a client error other than throttling is raised right
\* after the call that produced it.
C21_RetryDiscipline ==
    /\ Cardinality(CallPositions) <= env.max_retries
    /\ \A i \in CallPositions :
         i > 1 => /\ debug.trace[i - 1].op = "sleep"
                  /\ debug.trace[i - 2] = Invoked(ThrottlingException)
    /\ \A i \in SleepPositions : CallsUpTo(i) < env.max_retries
    /\ (RetryEnded /\ debug.trace # <<>>) =>
           debug.trace[Len(debug.trace)].op = "invoke_model"
    /\ \A i \in CallPositions :
         debug.trace[i].outcome \in ResponseBodies =>
             /\ i = Len(debug.trace)
             /\ pc = "returned"
             /\ debug.result = [kind |-> "returned", value |-> debug.trace[i].outcome]
    /\ \A i \in CallPositions :
         debug.trace[i].outcome \in ClientErrorCodes \ {ThrottlingException} =>
             /\ i = Len(debug.trace)
             /\ pc = "raised"
             /\ debug.result = [kind |-> "raised", value |-> debug.trace[i].outcome]

\* throttled twice and answered on the third and last attempt
C21_Witness ==
    /\ pc = "returned"
    /\ env.max_retries = DefaultMaxRetries
    /\ debug.trace = <<Invoked(ThrottlingException), Slept(1),
                       Invoked(ThrottlingException), Slept(2),
                       Invoked("predictions")>>

\* the seconds slept, in order
RECURSIVE SleepSeconds(_)
SleepSeconds(trace) ==
    IF trace = <<>> THEN <<>>
    ELSE IF Head(trace).op = "sleep"
         THEN <<Head(trace).seconds>> \o SleepSeconds(Tail(trace))
         ELSE SleepSeconds(Tail(trace))

PersistentThrottling ==
    /\ CallPositions # {}
    /\ \A i \in CallPositions : debug.trace[i] = Invoked(ThrottlingException)

RaisedThrottling == debug.result = [kind |-> "raised", value |-> ThrottlingException]

----------------------------------------------------------------------------
(* Properties of the calendar router *)

CalendarAnswered == pc = "answered"
Looked == "get_user_google_calendar_token"
Refreshed == "refresh_user_google_calendar_token"

\* the request carries a user and does not ask for mock data
RealRequest == debug.user_id # NoUser /\ ~env.use_mock

\* the lookup and then the refresh both gave no token
BothReturnedNone ==
    /\ debug.trace = <<Looked, Refreshed>>
    /\ Falsy(debug.access_token)
    /\ debug.exception \in {NoException, "HTTPException 401"}

\* C23: for a request with a user and without use_mock the lookup is the
\* first call and the refresh is called only after a lookup that gave no
\* token; when the refresh gives none either, the answer is HTTP 401 "No
\* Google Calendar access token available" and no events are returned.
C23_NoTokenAnswers401 ==
    RealRequest =>
        /\ debug.trace # <<>> => debug.trace[1] = Looked
        /\ \A i \in DOMAIN debug.trace :
             debug.trace[i] = Refreshed => (i = 2 /\ debug.trace[1] = Looked)
        /\ (Len(debug.trace) = 2 /\ debug.trace[2] = "fetch_google_calendar_events") =>
               ~Falsy(debug.access_token)
        /\ (CalendarAnswered /\ BothReturnedNone) =>
               /\ response.status = 401
               /\ response.detail = "No Google Calendar access token available"

----------------------------------------------------------------------------
(* Properties of the tasks router *)

Stored(list, task_id) == \E i \in DOMAIN list : list[i].id = task_id

\* list b is list a without the entry at one position holding task_id
RemovesOne(a, b, task_id) ==
    /\ Len(b) = Len(a) - 1
    /\ \E i \in DOMAIN a :
         /\ a[i].id = task_id
         /\ \A k \in DOMAIN b : b[k] = IF k < i THEN a[k] ELSE a[k + 1]

\* list b is list a with the entry at one position holding task_id replaced
ReplacesOne(a, b, task_id) ==
    /\ Len(b) = Len(a)
    /\ \E i \in DOMAIN a :
         /\ a[i].id = task_id
         /\ b[i] \in TaskBodies
         /\ \A k \in DOMAIN a \ {i} : b[k] = a[k]

\* C24: update_task and delete_task with an id no stored task has answer
\* 404 and leave the list as it is; with a stored id delete_task removes
\* one task and update_task replaces one, the other tasks keeping their
\* number and order; in every step of every run of create/update/delete.
C24_EditsOneTask ==
    [][ debug'.op \in {"update_task", "delete_task"} =>
          IF Stored(tasks, debug'.task_id)
          THEN /\ response'.status = 200
               /\ debug'.op = "delete_task" => RemovesOne(tasks, tasks', debug'.task_id)
               /\ debug'.op = "update_task" => ReplacesOne(tasks, tasks', debug'.task_id)
          ELSE /\ response' = NotFound
               /\ tasks' = tasks ]_vars

\* a delete that found its id while two stored tasks shared it has left one
C24_Witness ==
    /\ debug = [op |-> "delete_task", task_id |-> "2"]
    /\ response.status = 200
    /\ Cardinality({i \in DOMAIN tasks : tasks[i].id = "2"}) = 1
    /\ Len(tasks) = MaxStoredTasks - 1

----------------------------------------------------------------------------
(* Properties of a request while the clock runs *)

\* C25: the window, events_next_7_days, calendar_density,
\* sleep_hours_available, average_break_length and immediate_action_tasks
\* that get_stress_factors computes are those the score of the same request
\* was computed from, whatever the clock does between the calls.
C25_OneReferenceInstant ==
    FactorsCalled =>
        /\ get_week_range(env.readings[3]) = get_week_range(env.readings[1])
        /\ factor_kwargs.events_next_7_days = debug.events_count
        /\ factor_kwargs.calendar_density = debug.calendar_density
        /\ factor_kwargs.sleep_hours_available = debug.sleep_hours
        /\ factor_kwargs.average_break_length = debug.avg_break
        /\ factor_kwargs.immediate_action_tasks = debug.immediate_tasks

----------------------------------------------------------------------------
(* Properties of schedules around the end of the window *)

WindowEnd == get_week_range(now).week_end

\* where the seventh nightly sleep window ends: 08:00 after the window
LastNightEnd == WindowEnd + SleepEndHour * 60

StartsAtOrAfterWindowEnd(e) == e.start.wall >= WindowEnd

\* the request without the events that start at or after the window's end
WithoutLate == SelectSeq(events, LAMBDA e : ~StartsAtOrAfterWindowEnd(e))

LateIndices == {i \in DOMAIN events : StartsAtOrAfterWindowEnd(events[i])}

\* C26 as stated: events starting at or after the end of the window change
\* nothing: the StressScore and the StressFactors values are those of the
\* request without them.
C26_LateEventsNoEffect ==
    /\ Scored =>
         stress_score = ReturnedStressScore(ScoreLocals(WithoutLate, tasks, now), now)
    /\ FactorsCalled =>
         factor_kwargs = stress_factors_kwargs(WithoutLate, tasks, now)

\* C26: events starting at or after the end of the window change neither
\* the event count, the labels' counts, the density, the average break, the
\* task count, calendar_factor and task_factor, nor the sleep of the first
\* six nights; they reach the result only through the seventh night, whose
\* sleep window runs to 08:00 after the window's end, and when every such
\* event starts at or after that 08:00 the StressScore and the
\* StressFactors values are those of the request without them.
C26_LateEventsOnlyThroughLastNight ==
    Scored =>
        LET ref == ScoreLocals(WithoutLate, tasks, now)
        IN  /\ \A f \in {"events_count", "high_stress_count", "recreational_count",
                         "calendar_density", "avg_break", "immediate_tasks",
                         "calendar_factor", "task_factor", "break_factor"} :
                  debug[f] = ref[f]
            /\ \A d \in 1..6 : debug.sleep_nights[d] = ref.sleep_nights[d]
            /\ (\A i \in LateIndices : events[i].start.wall >= LastNightEnd) =>
                  /\ stress_score = ReturnedStressScore(ref, now)
                  /\ FactorsCalled =>
                        factor_kwargs = stress_factors_kwargs(WithoutLate, tasks, now)

\* the flight in the small hours after the window's end shortened the
\* seventh night, and the event at the window's very end is in the request
C26_Witness ==
    /\ FactorsCalled
    /\ \E i \in LateIndices : events[i].start.wall = WindowEnd
    /\ \E i \in LateIndices : events[i].start.wall > WindowEnd
    /\ debug.sleep_nights[7] <
           ScoreLocals(WithoutLate, tasks, now).sleep_nights[7]
    /\ debug.events_count = 0

----------------------------------------------------------------------------
(* Properties of the sleep estimate and of the calendar factor *)

NightLengthMinutes == NightEnd(1) - NightStart(1)

OverlapsNight(e, d) == e.end.wall > NightStart(d) /\ e.start.wall < NightEnd(d)

NoEventAtNight == \A i \in DOMAIN events : \A d \in 1..7 : ~OverlapsNight(events[i], d)

\* C27: every per-night value lies between 0 and the ten hours from 22:00
\* to 08:00, below the 12-hour cap, and so does sleep_hours_available; when
\* no event overlaps any of the seven nights sleep_hours_available is 10.0
\* and sleep_factor is 0.
C27_SleepWithinNight ==
    Scored =>
        /\ NightLengthMinutes = 10 * 60
        /\ \A d \in 1..7 : /\ 0 <= debug.sleep_nights[d]
                           /\ debug.sleep_nights[d] <= NightLengthMinutes
                           /\ debug.sleep_nights[d] < SleepCapMinutes
        /\ 0 <= debug.sleep_hours /\ debug.sleep_hours <= 10 * 100
        /\ NoEventAtNight => /\ debug.sleep_hours = 10 * 100
                             /\ debug.sleep_factor = 0
                             /\ stress_score.sleep_factor = 0

\* a request whose events all lie in the daytime
C27_Witness ==
    /\ Scored
    /\ Len(events) = MaxNightEvents
    /\ NoEventAtNight
    /\ debug.sleep_hours = 10 * 100
    /\ stress_score.sleep_factor = 0

HighStressInWindow == {i \in WindowIndices : MatchesHighStress(events[i])}

RecreationalInWindow ==
    {i \in WindowIndices : ~MatchesHighStress(events[i]) /\ MatchesRecreational(events[i])}

\* C28: high_stress_count is the number of windowed events matching a
\* high-stress keyword, recreational_count the number matching recreational
\* keywords only, and there are as many labels as windowed events, also
\* when events of the request share an id.
C28_OneLabelPerEvent ==
    Scored =>
        /\ debug.high_stress_count = Cardinality(HighStressInWindow)
        /\ debug.recreational_count = Cardinality(RecreationalInWindow)
        /\ Cardinality(DOMAIN debug.event_stress_labels) = debug.events_count
        /\ debug.events_count = Cardinality(WindowIndices)

\* the request's last event, and the request before it was added
Added == events[Len(events)]
BeforeAdded == SubSeq(events, 1, Len(events) - 1)

\* the last event is recreational, in the window, ends no earlier than it
\* starts, and shares its id with no other event
AddedRecreational ==
    /\ events # <<>>
    /\ Len(events) \in WindowIndices
    /\ ~MatchesHighStress(Added) /\ MatchesRecreational(Added)
    /\ Added.end.wall >= Added.start.wall
    /\ \A i \in 1..(Len(events) - 1) : events[i].id # Added.id

CalendarFactorBefore == ScoreLocals(BeforeAdded, tasks, now).calendar_factor

\* C29 as stated: one more recreational event in the window never makes
\* calendar_factor larger, whatever its length.
C29_RecreationNeverIncreases ==
    (Scored /\ AddedRecreational) => debug.calendar_factor <= CalendarFactorBefore

\* C29: one more recreational event in the window takes 0.8 off the
\* calendar term (1.2 for the event, -2 for its label) and adds 0.4 times
\* the density it brings; calendar_factor does not become larger when that
\* is at most 0.8, which is so for every event of at most 2% of the waking
\* minutes of the week (134 minutes), and the two returned values differ by
\* 0.4 * (density after - density before) - 0.8 when neither is clamped.
C29_ShortRecreationNeverIncreases ==
    (Scored /\ AddedRecreational) =>
        LET before == ScoreLocals(BeforeAdded, tasks, now)
            gain == 4000 * (debug.calendar_density - before.calendar_density) - 800000
        IN  /\ (DurationMinutes(Added) * 100 * 4 <= 8 * WakingMinutesPerWeek) =>
                  debug.calendar_factor <= before.calendar_factor
            /\ (before.calendar_factor > 0 /\ debug.calendar_factor > 0
                /\ before.calendar_factor < Hundred /\ debug.calendar_factor < Hundred) =>
                  debug.calendar_factor = before.calendar_factor + gain

\* a gym session of 134 minutes added to two events: the density it brings
\* rounds to 2.0 points at most and the factor is not larger than before
C29_Witness ==
    /\ Scored /\ AddedRecreational
    /\ Len(events) = 3
    /\ DurationMinutes(Added) = 134
    /\ CalendarFactorBefore > 0
    /\ debug.calendar_density - ScoreLocals(BeforeAdded, tasks, now).calendar_density >= 199
    /\ debug.calendar_factor <= CalendarFactorBefore

----------------------------------------------------------------------------
(* Properties of GoogleCalendarClient *)

Returned(op) == debug.op = op /\ debug.result = NoList

\* C30: the selected calendar list is never empty, whatever the calls; a
\* selection of no calendars (an empty list, or None) and a disconnect that
\* returns both leave ['primary']; after such a disconnect is_authenticated
\* is false; and get_selected_calendars returns the stored list.
C30_SelectionNeverEmpty ==
    /\ env.selected_calendar_ids # <<>>
    /\ env.selected_calendar_ids # NoList
    /\ (debug.op = "set_selected_calendars" /\ debug.argument \in {<<>>, NoList}) =>
           env.selected_calendar_ids = <<"primary">>
    /\ (debug.op = "set_selected_calendars" /\ debug.argument \notin {<<>>, NoList}) =>
           env.selected_calendar_ids = debug.argument
    /\ Returned("disconnect") =>
           /\ env.selected_calendar_ids = <<"primary">>
           /\ ~is_authenticated(env.credentials)
           /\ env.credentials = NoCredentials
    /\ debug.op = "get_selected_calendars" =>
           /\ debug.result = env.selected_calendar_ids
           /\ Len(debug.result) >= 1

\* an empty selection made on a connected client
C30_Witness ==
    /\ debug.op = "set_selected_calendars"
    /\ debug.argument = <<>>
    /\ env.selected_calendar_ids = <<"primary">>
    /\ is_authenticated(env.credentials)

====
